---- MODULE Spec2Model ----
(***************************************************************************)
(* Pose-matching camera page with auto-capture (src/unnamed/part_003).     *)
(*                                                                         *)
(* Numbers.  The page computes in IEEE doubles; the model computes in      *)
(* fixed point.  Landmark coordinates are integers in units of             *)
(* 1/COORD_SCALE of the normalised [0,1] range, visibilities are integers  *)
(* in percent, and the smoothing accumulator previousScoreRef is an        *)
(* integer in units of 1/SCORE_SCALE of a score point.  Every division and *)
(* square root rounds to the nearest unit.                                 *)
(*                                                                         *)
(* React.  A handler and the effects it triggers (scoring effect, then     *)
(* auto-capture effect) form one atomic step, since the page runs on one   *)
(* thread and effects are flushed before the next event is handled.  An    *)
(* effect runs only when one of its dependencies changed identity.         *)
(***************************************************************************)
EXTENDS Integers, Sequences, FiniteSets, Bags, TLC

\* ---------------------------------------------------------------- bounds
COORD_SCALE == 1000
SCORE_SCALE == 10
MaxTime == 7501
MaxPending == 2
MaxUploads == 2
MaxStale == 2
MaxCameras == 2
MaxHoldCount == 6
MaxCaptures == 2

\* ------------------------------------------------------ program constants
CAM_W == 640
CAM_H == 480
MIN_VISIBLE_LANDMARKS == 5
GUIDANCE_MAX_MATCH == 50
MAX_DISTANCE_PCT == 42
VISIBLE_PCT == 50
ALPHA_PCT == 20
HOLD_SCORE == 80
HOLD_MS == 3000
COUNTDOWN_FROM == 3
TICK_MS == 1000
CENTER_LEFT_PCT == 38
CENTER_RIGHT_PCT == 62
SHOULDER_WIDTH_TOO_BIG_PCT == 42
SHOULDER_WIDTH_TOO_SMALL_PCT == 16
KEY_LANDMARK_INDICES == <<11, 12, 13, 14, 15, 16, 23, 24, 25, 26>>

KeySet == {KEY_LANDMARK_INDICES[k] : k \in 1..Len(KEY_LANDMARK_INDICES)}

\* null of a numeric slot (countdown, timestamps, staged score, photo id)
Null == -1
\* null of a string slot (capture type, guidance prompt, image url)
NullStr == "null"

\* ------------------------------------------------------------ arithmetic
\* a / b rounded to the nearest integer, halves upward (b > 0)
RoundDiv(a, b) == (2 * a + b) \div (2 * b)

RECURSIVE SqrtSearch(_, _, _)
SqrtSearch(n, lo, hi) ==
  IF lo >= hi THEN lo
  ELSE LET mid == (lo + hi + 1) \div 2
       IN IF mid * mid <= n THEN SqrtSearch(n, mid, hi)
          ELSE SqrtSearch(n, lo, mid - 1)

\* Math.sqrt on integers: the nearest integer to the square root of n
Sqrt(n) ==
  LET f == SqrtSearch(n, 0, 4 * COORD_SCALE)
  IN IF n - f * f > f THEN f + 1 ELSE f

\* ------------------------------------------------------------- data model
\* PoseLandmarks = Landmark[] | null.  lm maps the landmark indices present
\* in the array to records [x, y] or [x, y, visibility].
NullPose == [isNull |-> TRUE, lm |-> <<>>]
SomePose(f) == [isNull |-> FALSE, lm |-> f]
EmptyPose == SomePose(<<>>)

\* { width, height } | null
NullSize == [isNull |-> TRUE, width |-> 0, height |-> 0]
Size(w, h) == [isNull |-> FALSE, width |-> w, height |-> h]

HasLandmark(p, i) == i \in DOMAIN p.lm

\* l?.visibility ?? 1, in percent
VisibilityOf(p, i) ==
  IF ~HasLandmark(p, i) THEN 100
  ELSE IF "visibility" \in DOMAIN p.lm[i] THEN p.lm[i].visibility ELSE 100

\* the letterbox box with the comparison of the aspect ratios reversed
LetterboxBoxReversed(Cw, Ch, size) ==
  LET w == IF size.isNull THEN Cw ELSE size.width
      h == IF size.isNull THEN Ch ELSE size.height
  IN IF w * Ch > Cw * h
     THEN [den |-> 2 * h, boxW |-> 2 * Ch * w, boxH |-> 2 * h * Ch,
           boxX |-> Cw * h - Ch * w, boxY |-> 0]
     ELSE [den |-> 2 * w, boxW |-> 2 * w * Cw, boxH |-> 2 * Cw * h,
           boxX |-> 0, boxY |-> Ch * w - Cw * h]

\* -------------------------------------------------------- letterbox box
\* The comparison box of a Cw x Ch frame for a template size, as exact
\* rationals over the common denominator den.
LetterboxBox(Cw, Ch, size) ==
  LET w == IF size.isNull THEN Cw ELSE size.width
      h == IF size.isNull THEN Ch ELSE size.height
  IN IF w * Ch < Cw * h
     THEN [den |-> 2 * h, boxW |-> 2 * Ch * w, boxH |-> 2 * h * Ch,
           boxX |-> Cw * h - Ch * w, boxY |-> 0]
     ELSE [den |-> 2 * w, boxW |-> 2 * w * Cw, boxH |-> 2 * Cw * h,
           boxX |-> 0, boxY |-> Ch * w - Cw * h]

\* the filter without its visibility test
CountedIndicesAnyVisibility(template, live) ==
  {i \in KeySet : HasLandmark(template, i) /\ HasLandmark(live, i)}

\* a letterbox box together with the frame it was computed for
NullBox == [isNull |-> TRUE, Cw |-> 0, Ch |-> 0, den |-> 1,
            boxW |-> 0, boxH |-> 0, boxX |-> 0, boxY |-> 0]
FrameBox(Cw, Ch, size) ==
  LET b == LetterboxBox(Cw, Ch, size)
  IN [isNull |-> FALSE, Cw |-> Cw, Ch |-> Ch, den |-> b.den,
      boxW |-> b.boxW, boxH |-> b.boxH, boxX |-> b.boxX, boxY |-> b.boxY]

RECURSIVE Gcd(_, _)
Gcd(a, b) == IF b = 0 THEN a ELSE Gcd(b, a % b)

\* the fraction n/d in lowest terms
Frac(n, d) == LET g == Gcd(n, d) IN <<n \div g, d \div g>>

\* the source rectangle with Math.min in place of Math.max
SourceRectMin(vW, vH, b) ==
  LET rw == Frac(b.boxW, b.den * vW)
      rh == Frac(b.boxH, b.den * vH)
      scl == IF rw[1] * rh[2] <= rh[1] * rw[2] THEN rw ELSE rh
      sW == Frac(b.boxW * scl[2], b.den * scl[1])
      sH == Frac(b.boxH * scl[2], b.den * scl[1])
  IN [sx |-> Frac(vW * sW[2] - sW[1], 2 * sW[2]),
      sy |-> Frac(vH * sH[2] - sH[1], 2 * sH[2]), sW |-> sW, sH |-> sH]

\* the rectangle of the vW x vH video that performCapture reads, in pixels as
\* fractions in lowest terms: scl = Math.max(boxW / vW, boxH / vH),
\* sW = boxW / scl, sH = boxH / scl, sx = (vW - sW) / 2, sy = (vH - sH) / 2
SourceRect(vW, vH, b) ==
  LET rw == Frac(b.boxW, b.den * vW)
      rh == Frac(b.boxH, b.den * vH)
      scl == IF rw[1] * rh[2] >= rh[1] * rw[2] THEN rw ELSE rh
      sW == Frac(b.boxW * scl[2], b.den * scl[1])
      sH == Frac(b.boxH * scl[2], b.den * scl[1])
  IN [sx |-> Frac(vW * sW[2] - sW[1], 2 * sW[2]),
      sy |-> Frac(vH * sH[2] - sH[1], 2 * sH[2]), sW |-> sW, sH |-> sH]

\* what performCapture renders: the letterbox box of the video frame, the
\* rectangle read from the video, the rectangle it is drawn to, and whether
\* the context is flipped (it never is: drawImage is called on a fresh
\* context)
CaptureBox(vW, vH, size) ==
  LET b == FrameBox(vW, vH, size)
  IN b @@ [src |-> SourceRect(vW, vH, b),
           dst |-> [x |-> Frac(b.boxX, b.den), y |-> Frac(b.boxY, b.den),
                    w |-> Frac(b.boxW, b.den), h |-> Frac(b.boxH, b.den)],
           flip |-> FALSE]

\* ---------------------------------------------------------- match scorer
\* the indices that pass the visibility filter of computeMatchScore
CountedIndices(template, live) ==
  {i \in KeySet :
     /\ HasLandmark(template, i)
     /\ HasLandmark(live, i)
     /\ VisibilityOf(template, i) >= VISIBLE_PCT
     /\ VisibilityOf(live, i) >= VISIBLE_PCT}

\* distance of one landmark pair in letterbox space, in coordinate units
PointDistance(t, l, box) ==
  LET lx == RoundDiv(l.x * CAM_W * box.den - box.boxX * COORD_SCALE, box.boxW)
      ly == RoundDiv(l.y * CAM_H * box.den - box.boxY * COORD_SCALE, box.boxH)
      dx == t.x - lx
      dy == t.y - ly
  IN Sqrt(dx * dx + dy * dy)

\* the loop body for the k-th key index: its distance if it is counted
Contribution(template, live, box, idx, k) ==
  LET i == KEY_LANDMARK_INDICES[k]
  IN IF i \in idx THEN PointDistance(template.lm[i], live.lm[i], box) ELSE 0

\* total after the loop over the ten key indices
SumDistances(template, live, box, idx) ==
  Contribution(template, live, box, idx, 1) + Contribution(template, live, box, idx, 2)
  + Contribution(template, live, box, idx, 3) + Contribution(template, live, box, idx, 4)
  + Contribution(template, live, box, idx, 5) + Contribution(template, live, box, idx, 6)
  + Contribution(template, live, box, idx, 7) + Contribution(template, live, box, idx, 8)
  + Contribution(template, live, box, idx, 9) + Contribution(template, live, box, idx, 10)

\* the scorer without Math.min(1, ...)
computeMatchScoreUnclamped(template, live, size) ==
  IF template.isNull \/ live.isNull THEN 0
  ELSE LET box == LetterboxBox(CAM_W, CAM_H, size)
           idx == CountedIndices(template, live)
           count == Cardinality(idx)
           total == SumDistances(template, live, box, idx)
       IN IF count < MIN_VISIBLE_LANDMARKS THEN 0
          ELSE RoundDiv(100 * (MAX_DISTANCE_PCT * count * COORD_SCALE - 100 * total),
                        MAX_DISTANCE_PCT * count * COORD_SCALE)

\* the scorer without its two early returns: nothing to compare is no distance
computeMatchScoreNoEarlyReturn(template, live, size) ==
  LET box == LetterboxBox(CAM_W, CAM_H, size)
      idx == CountedIndices(template, live)
      count == Cardinality(idx)
      total == SumDistances(template, live, box, idx)
  IN IF count = 0 THEN 100
     ELSE IF 100 * total >= MAX_DISTANCE_PCT * count * COORD_SCALE THEN 0
     ELSE RoundDiv(100 * (MAX_DISTANCE_PCT * count * COORD_SCALE - 100 * total),
                   MAX_DISTANCE_PCT * count * COORD_SCALE)

computeMatchScore(template, live, size) ==
  IF template.isNull \/ live.isNull THEN 0
  ELSE LET box == LetterboxBox(CAM_W, CAM_H, size)
           idx == CountedIndices(template, live)
           count == Cardinality(idx)
           total == SumDistances(template, live, box, idx)
           \* avgDistance / 0.42 >= 1
           far == 100 * total >= MAX_DISTANCE_PCT * count * COORD_SCALE
       IN IF count < MIN_VISIBLE_LANDMARKS THEN 0
          ELSE IF far THEN 0
          ELSE RoundDiv(100 * (MAX_DISTANCE_PCT * count * COORD_SCALE - 100 * total),
                        MAX_DISTANCE_PCT * count * COORD_SCALE)

\* an EMA step with the weights of raw and previous exchanged in sign
SmoothedValueOvershoot(rawScore, previous) ==
  RoundDiv((100 + ALPHA_PCT) * rawScore * SCORE_SCALE - ALPHA_PCT * previous, 100)

\* the accumulator after one EMA step
SmoothedValue(rawScore, previous) ==
  RoundDiv(ALPHA_PCT * rawScore * SCORE_SCALE + (100 - ALPHA_PCT) * previous, 100)

\* Math.round of an accumulator value
RoundScore(acc) == RoundDiv(acc, SCORE_SCALE)

\* getSmoothedScore: the new accumulator and the returned rounded score
getSmoothedScore(rawScore, previous) ==
  LET smoothed == SmoothedValue(rawScore, previous)
  IN [previous |-> smoothed, score |-> RoundScore(smoothed)]

\* the advisor with the distance checks before the centring checks
getGuidancePromptDistanceFirst(live) ==
  IF live.isNull \/ DOMAIN live.lm = {} THEN NullStr
  ELSE IF ~HasLandmark(live, 11) \/ ~HasLandmark(live, 12) THEN NullStr
  ELSE LET l == live.lm[11]
           r == live.lm[12]
           dx == r.x - l.x
           dy == r.y - l.y
           shoulderWidth == Sqrt(dx * dx + dy * dy)
       IN IF 100 * shoulderWidth > SHOULDER_WIDTH_TOO_BIG_PCT * COORD_SCALE THEN "Back up"
          ELSE IF 100 * shoulderWidth < SHOULDER_WIDTH_TOO_SMALL_PCT * COORD_SCALE THEN "Come closer"
          ELSE IF 100 * (l.x + r.x) < 2 * CENTER_LEFT_PCT * COORD_SCALE THEN "Move left"
          ELSE IF 100 * (l.x + r.x) > 2 * CENTER_RIGHT_PCT * COORD_SCALE THEN "Move right"
          ELSE NullStr

\* ------------------------------------------------------- guidance advisor
getGuidancePrompt(live) ==
  IF live.isNull \/ DOMAIN live.lm = {} THEN NullStr
  ELSE IF ~HasLandmark(live, 11) \/ ~HasLandmark(live, 12) THEN NullStr
  ELSE LET l == live.lm[11]
           r == live.lm[12]
           dx == r.x - l.x
           dy == r.y - l.y
           shoulderWidth == Sqrt(dx * dx + dy * dy)
       IN IF 100 * (l.x + r.x) < 2 * CENTER_LEFT_PCT * COORD_SCALE THEN "Move left"
          ELSE IF 100 * (l.x + r.x) > 2 * CENTER_RIGHT_PCT * COORD_SCALE THEN "Move right"
          ELSE IF 100 * shoulderWidth > SHOULDER_WIDTH_TOO_BIG_PCT * COORD_SCALE THEN "Back up"
          ELSE IF 100 * shoulderWidth < SHOULDER_WIDTH_TOO_SMALL_PCT * COORD_SCALE THEN "Come closer"
          ELSE NullStr

\* ------------------------------------------------------------------ state
VARIABLES
  step,               \* 'upload' | 'camera'
  poseReady,          \* poseRef.current is set (detector initialised)
  modeRef,            \* 'template' | 'live'
  templatePose, templateImageSize, templateImageUrl, extracting,
  loading,            \* uploaded images whose onload has not fired yet
  uploads,            \* number of files chosen so far
  isCamActive,        \* the camera is started and delivers frames
  videoSize,          \* video.videoWidth x video.videoHeight, null before the start
  canvasBox,          \* the frame and letterbox box of the last draw
  camError,           \* the message of the camera error overlay, or null
  camStartFailed,     \* startCameraWithFallback returned without a camera
  staleStarts,        \* startCameraWithFallback calls still awaiting cam.start()
                      \* whose camera step has been left
  activeCameras,      \* Camera instances started and not stopped
  pending,            \* detector submissions whose result is outstanding
  livePose, matchScore, previousScore, guidancePrompt,
  lastScoredTemplate, \* observer: the template of the last computeMatchScore call
  autoCaptureEnabled, countdown,
  countdownTimer,     \* countdownTimerRef: due time of the next interval tick
  closureScore,       \* matchScore captured by the running interval's closure
  autoHoldStart,
  isCapturing, capturedPhoto, showSuccessModal, lastCaptureType,
  saveInFlight, pendingPoseName, pendingScore, pendingCaptureType,
  photoBox,           \* the frame and letterbox box the staged photo was cut with
  saving,             \* photos whose saveGalleryPhoto call is outstanding
  gallery,            \* photos saveGalleryPhoto has inserted
  saveCalls,          \* how often each photo was handed to saveGalleryPhoto
  request,            \* the request the site received last
  response,           \* what the site answered to it
  env,                \* NEXT_PUBLIC_SUPABASE_URL and NEXT_PUBLIC_SUPABASE_ANON_KEY
  session,            \* what supabase.auth.getUser finds: 'user' | 'none' | 'error'
  savedPhotos,        \* the rows of the table saved_photos
  storageCall,        \* the storage call under way or just ended
  displaySuccess,     \* manual camera page: the success banner is shown
  successHoldCount,   \* manual camera page: successHoldCountRef
  lastTicks,          \* observer: the smoothed scores of the manual page's
                      \* last scoring ticks, newest last
  captures,           \* number of stills rendered so far
  now,                \* performance.now(), in ms
  qualSince           \* observer: time of the first scoring tick of the
                      \* current unbroken run of ticks with score >= 80

templateVars == <<templatePose, templateImageSize, templateImageUrl, extracting>>
uploadVars == <<loading, uploads>>
scoreVars == <<matchScore, previousScore, guidancePrompt, qualSince,
               lastScoredTemplate>>
autoVars == <<countdown, countdownTimer, closureScore, autoHoldStart>>
captureVars == <<isCapturing, capturedPhoto, showSuccessModal, lastCaptureType,
                 pendingPoseName, pendingScore, pendingCaptureType, captures,
                 photoBox>>
camVars == <<isCamActive, videoSize, canvasBox, camError, camStartFailed,
            staleStarts, activeCameras>>
saveVars == <<saveInFlight, saving, gallery, saveCalls>>
storeVars == <<env, session, savedPhotos, storageCall>>
manualVars == <<displaySuccess, successHoldCount, lastTicks>>
siteVars == <<request, response, storeVars, manualVars>>

vars == <<step, poseReady, modeRef, templateVars, uploadVars, camVars, pending,
          livePose, scoreVars, autoCaptureEnabled, autoVars, captureVars,
          saveVars, now, siteVars>>

\* ------------------------------------------------------------ middleware
\* Paths, query strings and keys are sequences of characters.
startsWith(str, prefix) ==
  Len(prefix) <= Len(str) /\ SubSeq(str, 1, Len(prefix)) = prefix

PathCamera == <<"/", "c", "a", "m", "e", "r", "a">>
PathSaved == <<"/", "s", "a", "v", "e", "d">>
PathGallery == <<"/", "g", "a", "l", "l", "e", "r", "y">>
PathLogin == <<"/", "l", "o", "g", "i", "n">>
PathRoot == <<"/">>
PlaceholderUrl == "your-project-url-here"
PlaceholderKey == <<"y", "o", "u", "r", "-", "a", "n", "o", "n", "-", "k", "e", "y", "-", "h", "e", "r", "e">>

\* the requests of the model: the three sections and paths below and beside
\* them, with and without a query, with and without a signed-in user, under
\* every kind of Supabase configuration
RequestPaths ==
  {PathCamera, PathCamera \o <<"/", "x">>, PathSaved, PathSaved \o <<"/", "x">>,
   PathGallery, PathGallery \o <<"/", "x">>, PathLogin, PathRoot}
Searches == {<<>>, <<"?", "a", "=", "1">>}
SupabaseUrls == {"", PlaceholderUrl, "https://project.supabase.co"}
SupabaseKeys == {<<>>, PlaceholderKey, <<"e", "y", "J", "x">>, <<"s", "b", "_", "x">>, <<"x", "y", "z">>}

\* the page is rendered
Served == [kind |-> "next"]
Redirect(pathname, search, next) ==
  [kind |-> "redirect", pathname |-> pathname, search |-> search, next |-> next]

\* a matcher entry '/base/:path*': the base and everything below it
MatchesBelow(pathname, base) ==
  pathname = base \/ startsWith(pathname, base \o <<"/">>)

\* config.matcher
matcher(pathname) ==
  \/ MatchesBelow(pathname, PathCamera)
  \/ MatchesBelow(pathname, PathSaved)
  \/ pathname = PathLogin

keyLooksValid(supabaseKey) ==
  startsWith(supabaseKey, <<"e", "y", "J">>) \/ startsWith(supabaseKey, <<"s", "b", "_">>)

protectedPaths == {PathCamera, PathSaved}

middleware(req) ==
  IF \/ env.supabaseUrl = ""
     \/ env.supabaseKey = <<>>
     \/ env.supabaseUrl = PlaceholderUrl
     \/ env.supabaseKey = PlaceholderKey
     \/ ~keyLooksValid(env.supabaseKey)
  THEN Served
  ELSE LET isProtected == \E prefix \in protectedPaths : startsWith(req.pathname, prefix)
       IN IF isProtected /\ ~req.user
          THEN Redirect(PathLogin, req.search, req.pathname \o req.search)
          ELSE IF req.user /\ req.pathname = PathLogin
          THEN Redirect(PathRoot, req.search, <<>>)
          ELSE Served

\* --------------------------------------------------------------- storage
Env(supabaseUrl, supabaseKey) ==
  [supabaseUrl |-> supabaseUrl, supabaseKey |-> supabaseKey]
Envs == {Env(url, key) : url \in SupabaseUrls, key \in SupabaseKeys}
EnvUnset == Env("", <<>>)
EnvProject == Env("https://project.supabase.co", <<"s", "b", "_", "x">>)

hasSupabase ==
  env.supabaseUrl # "" /\ env.supabaseKey # <<>>
    /\ startsWith(env.supabaseKey, <<"s", "b", "_">>)

\* an identity check that lets everybody through
requireUserIdAnyone(sess) == "identified"

\* requireUserId: throws unless getUser yields a user
requireUserId(sess) == IF sess = "user" THEN "identified" ELSE "notAuthenticated"

\* the exported functions of the storage module
StorageFns == {"fetchPhotos", "fetchSavedPhotoById", "savePhotoRemote",
               "deletePhotoRemote", "fetchGalleryPhotos", "saveGalleryPhoto",
               "deleteGalleryPhoto"}
PhotoIds == 1..MaxCaptures

\* a storage function up to its table query
BeginPhase == IF ~hasSupabase THEN "envMissing" ELSE requireUserId(session)

\* what saveGalleryPhoto can do with a photo: insert it, or throw
InsertOutcomes == IF BeginPhase = "identified" THEN BOOLEAN ELSE {FALSE}

\* no request has been received, no storage call made, the tables are empty
NoRequest == [isNull |-> TRUE]
NoResponse == [kind |-> "none"]
NoCall == [fn |-> "none", id |-> 0, phase |-> "none"]

SiteInit ==
  /\ request = NoRequest /\ response = NoResponse
  /\ savedPhotos = {} /\ storageCall = NoCall
  /\ displaySuccess = FALSE /\ successHoldCount = 0 /\ lastTicks = <<>>

\* ------------------------------------------------- detector and pictures
\* v thousandths of the normalised range, in coordinate units
Pm(v) == (v * COORD_SCALE) \div 1000

\* a standing person, all ten key landmarks clearly visible
BaseLandmarks ==
  (11 :> [x |-> Pm(600), y |-> Pm(300), visibility |-> 90]) @@
  (12 :> [x |-> Pm(400), y |-> Pm(300), visibility |-> 90]) @@
  (13 :> [x |-> Pm(650), y |-> Pm(450), visibility |-> 90]) @@
  (14 :> [x |-> Pm(350), y |-> Pm(450), visibility |-> 90]) @@
  (15 :> [x |-> Pm(660), y |-> Pm(600), visibility |-> 90]) @@
  (16 :> [x |-> Pm(340), y |-> Pm(600), visibility |-> 90]) @@
  (23 :> [x |-> Pm(570), y |-> Pm(600), visibility |-> 90]) @@
  (24 :> [x |-> Pm(430), y |-> Pm(600), visibility |-> 90]) @@
  (25 :> [x |-> Pm(570), y |-> Pm(800), visibility |-> 90]) @@
  (26 :> [x |-> Pm(430), y |-> Pm(800), visibility |-> 90])

Shifted(f, dx, dy) ==
  [i \in DOMAIN f |-> [f[i] EXCEPT !.x = @ + dx, !.y = @ + dy]]

\* the first n key landmarks keep their visibility, the others get v percent
Dimmed(f, n, v) ==
  [i \in DOMAIN f |->
     IF \E k \in 1..n : KEY_LANDMARK_INDICES[k] = i THEN f[i]
     ELSE [f[i] EXCEPT !.visibility = v]]

\* landmarks as the detector may deliver them without a visibility value
Unrated(f) == [i \in DOMAIN f |-> [x |-> f[i].x, y |-> f[i].y]]

\* an array that ends before index n
Truncated(f, n) == [i \in {j \in DOMAIN f : j < n} |-> f[i]]

\* the standing person with the shoulders centred at c and w apart
\* (thousandths of the frame width)
Shouldered(c, w) ==
  (11 :> [x |-> Pm(c + w \div 2), y |-> Pm(300), visibility |-> 90]) @@
  (12 :> [x |-> Pm(c - w \div 2), y |-> Pm(300), visibility |-> 90]) @@
  BaseLandmarks

\* The state holds a detector result by name; Skeleton gives its landmarks.
PoseIds == {"null", "empty", "exact", "near", "far", "low", "away",
            "occluded", "half", "unrated", "arms"}

GuidePoses == {"leftwide", "rightsmall", "wide", "small", "centred",
               "edgelow", "edgehigh"}

Skeleton(id) ==
  CASE id = "null" -> NullPose
    [] id = "empty" -> EmptyPose
    [] id = "exact" -> SomePose(BaseLandmarks)
    \* 0.063 to the side: raw score 85 against "exact"
    [] id = "near" -> SomePose(Shifted(BaseLandmarks, Pm(63), 0))
    \* 0.126 to the side: raw score 70 against "exact"
    [] id = "far" -> SomePose(Shifted(BaseLandmarks, Pm(126), 0))
    \* lower in the frame
    [] id = "low" -> SomePose(Shifted(BaseLandmarks, Pm(20), Pm(150)))
    \* at the left edge of the frame
    [] id = "away" -> SomePose(Shifted(BaseLandmarks, 0 - Pm(340), 0))
    \* only four key landmarks visible
    [] id = "occluded" -> SomePose(Dimmed(BaseLandmarks, 4, 30))
    \* exactly five key landmarks visible
    [] id = "half" -> SomePose(Dimmed(BaseLandmarks, 5, 49))
    \* no visibility values at all
    [] id = "unrated" -> SomePose(Unrated(BaseLandmarks))
    \* shoulders, elbows and wrists only
    [] id = "arms" -> SomePose(Truncated(Shifted(BaseLandmarks, Pm(30), 0), 17))
    \* shoulder centre and shoulder width on either side of the thresholds
    [] id = "leftwide" -> SomePose(Shouldered(300, 500))
    [] id = "rightsmall" -> SomePose(Shouldered(700, 100))
    [] id = "wide" -> SomePose(Shouldered(500, 500))
    [] id = "small" -> SomePose(Shouldered(500, 100))
    [] id = "centred" -> SomePose(Shouldered(500, 300))
    [] id = "edgelow" -> SomePose(Shouldered(380, 160))
    [] id = "edgehigh" -> SomePose(Shouldered(620, 420))

\* the pictures a user can choose, with what the detector finds in them
Images == {"person", "blank"}
ImagePose(img) == IF img = "person" THEN "exact" ELSE "null"
ImageSize(img) == Size(640, 480)

SizeSet == {NullSize, Size(640, 480), Size(480, 640), Size(640, 360)}

\* what the detector can report for a camera frame
LivePoses == {"occluded"}
CapturePoses == {"exact"}
HoldPoses == {"near", "far"}

\* computeMatchScore and getGuidancePrompt, evaluated once per input
RawScore ==
  [t \in PoseIds |-> [l \in PoseIds \cup GuidePoses |-> [size \in SizeSet |->
     computeMatchScore(Skeleton(t), Skeleton(l), size)]]]

Guidance == [l \in PoseIds \cup GuidePoses |-> getGuidancePrompt(Skeleton(l))]

\* the resolutions startCameraWithFallback tries, in order
Resolutions == {Size(1920, 1080), Size(1280, 720), Size(640, 480)}
FirstResolution == Size(1920, 1080)

\* the cut of performCapture for every camera resolution and template size
CaptureBoxes ==
  [v \in Resolutions |-> [size \in SizeSet |->
     CaptureBox(v.width, v.height, size)]]

TimeSteps == {1000, 3000}
HoldTimeSteps == {1500, 2999}

\* ---------------------------------------------------------------- effects
\* the scoring effect with guidance at every score
ScoringEffectAlwaysGuides(tp, lp, size, previous) ==
  LET rawScore == RawScore[tp][lp][size]
      s == getSmoothedScore(rawScore, previous)
  IN [previous |-> s.previous,
      score |-> s.score,
      guidance |-> IF lp # "null" THEN Guidance[lp] ELSE NullStr]

\* Scoring + guidance effect (deps: templatePose, livePose, templateImageSize)
ScoringEffect(tp, lp, size, previous) ==
  LET rawScore == RawScore[tp][lp][size]
      s == getSmoothedScore(rawScore, previous)
  IN [previous |-> s.previous,
      score |-> s.score,
      guidance |-> IF s.score < GUIDANCE_MAX_MATCH /\ lp # "null"
                   THEN Guidance[lp] ELSE NullStr]

AutoState == [hold |-> autoHoldStart, cd |-> countdown,
              timer |-> countdownTimer, closure |-> closureScore]

\* cancelCountdown without setCountdown(null)
cancelCountdownKeepsDisplay(a) == [a EXCEPT !.timer = Null, !.closure = Null]

\* cancelCountdown: clear the interval and the displayed countdown
cancelCountdown(a) == [a EXCEPT !.cd = Null, !.timer = Null, !.closure = Null]

\* a countdown that starts one above COUNTDOWN_FROM
startCountdownFromFour(a, score, t) ==
  [cancelCountdown(a) EXCEPT !.cd = COUNTDOWN_FROM + 1, !.timer = t + TICK_MS,
                             !.closure = score]

\* startCountdown: the interval's closure keeps the score of this render
startCountdown(a, score, t) ==
  [cancelCountdown(a) EXCEPT !.cd = COUNTDOWN_FROM, !.timer = t + TICK_MS,
                             !.closure = score]

\* !x of a number | null
Falsy(x) == x = Null \/ x = 0

\* the auto-capture effect without the elapsed-time test
AutoCaptureEffectNoHold(enabled, score, a, capturing, t) ==
  IF ~enabled THEN cancelCountdown([a EXCEPT !.hold = Null])
  ELSE IF score >= HOLD_SCORE
  THEN LET held == [a EXCEPT !.hold = IF Falsy(a.hold) THEN t ELSE a.hold]
       IN IF held.cd = Null /\ ~capturing
          THEN startCountdown(held, score, t)
          ELSE held
  ELSE cancelCountdown([a EXCEPT !.hold = Null])

\* the auto-capture effect without its reaction to a score below 80
AutoCaptureEffectIgnoresDip(enabled, score, a, capturing, t) ==
  IF ~enabled THEN cancelCountdown([a EXCEPT !.hold = Null])
  ELSE IF score >= HOLD_SCORE
  THEN LET held == [a EXCEPT !.hold = IF Falsy(a.hold) THEN t ELSE a.hold]
       IN IF t - held.hold >= HOLD_MS /\ held.cd = Null /\ ~capturing
          THEN startCountdown(held, score, t)
          ELSE held
  ELSE a

\* Auto-capture effect (deps: matchScore, autoCaptureEnabled, countdown,
\* startCountdown, cancelCountdown)
AutoCaptureEffect(enabled, score, a, capturing, t) ==
  IF ~enabled THEN cancelCountdown([a EXCEPT !.hold = Null])
  ELSE IF score >= HOLD_SCORE
  THEN LET held == [a EXCEPT !.hold = IF Falsy(a.hold) THEN t ELSE a.hold]
       IN IF t - held.hold >= HOLD_MS /\ held.cd = Null /\ ~capturing
          THEN startCountdown(held, score, t)
          ELSE held
  ELSE cancelCountdown([a EXCEPT !.hold = Null])

SetAuto(a) ==
  /\ autoHoldStart' = a.hold
  /\ countdown' = a.cd
  /\ countdownTimer' = a.timer
  /\ closureScore' = a.closure

\* the auto-capture effect after a handler left the page with the given
\* values; runs tells whether one of its dependencies changed
AutoCascade(runs, enabled, score, a, capturing) ==
  SetAuto(IF runs THEN AutoCaptureEffect(enabled, score, a, capturing, now) ELSE a)

\* the scoring effect after a change of template, live pose or size, and the
\* auto-capture effect after it
ScoreCascade(runs, tp, lp, size, sizeChanged) ==
  LET s == IF runs THEN ScoringEffect(tp, lp, size, previousScore)
           ELSE [previous |-> previousScore, score |-> matchScore,
                 guidance |-> guidancePrompt]
  IN /\ previousScore' = s.previous
     /\ matchScore' = s.score
     /\ guidancePrompt' = s.guidance
     /\ qualSince' = IF ~runs THEN qualSince
                     ELSE IF s.score < HOLD_SCORE THEN Null
                     ELSE IF qualSince = Null THEN now ELSE qualSince
     /\ lastScoredTemplate' = IF runs THEN tp ELSE lastScoredTemplate
     /\ AutoCascade(s.score # matchScore \/ sizeChanged, autoCaptureEnabled,
                    s.score, AutoState, isCapturing)

\* ------------------------------------------------------------ operations
Mounted ==
  /\ step = "upload" /\ poseReady = FALSE /\ modeRef = "template"
  /\ templatePose = "null" /\ templateImageSize = NullSize
  /\ templateImageUrl = NullStr /\ extracting = FALSE
  /\ loading = <<>> /\ uploads = 0
  /\ isCamActive = FALSE /\ videoSize = NullSize /\ canvasBox = NullBox
  /\ camError = NullStr /\ camStartFailed = FALSE
  /\ staleStarts = 0 /\ activeCameras = 0
  /\ pending = <<>>
  /\ livePose = "null" /\ matchScore = 0 /\ previousScore = 0
  /\ guidancePrompt = NullStr
  \* the scoring effect has run once, on mount
  /\ lastScoredTemplate = "null"
  /\ autoCaptureEnabled = TRUE /\ countdown = Null /\ countdownTimer = Null
  /\ closureScore = Null /\ autoHoldStart = Null
  /\ isCapturing = FALSE /\ capturedPhoto = Null /\ showSuccessModal = FALSE
  /\ lastCaptureType = NullStr /\ saveInFlight = FALSE
  /\ pendingPoseName = NullStr /\ pendingScore = Null
  /\ pendingCaptureType = NullStr /\ saving = {} /\ gallery = {}
  /\ saveCalls = EmptyBag
  /\ captures = 0
  /\ photoBox = NullBox
  /\ now = 1 /\ qualSince = Null
  /\ SiteInit

\* the page right after mounting, on a site without Supabase configuration
Init == Mounted /\ env = EnvUnset /\ session = "none"

\* the MediaPipe init effect finishes: poseRef.current = pose
PoseInitialized ==
  /\ ~poseReady /\ step # "unmounted"
  /\ poseReady' = TRUE
  /\ UNCHANGED <<step, modeRef, templateVars, uploadVars, camVars, pending,
                 livePose, scoreVars, autoCaptureEnabled, autoVars, captureVars,
                 saveVars, now, siteVars>>

\* onFileChange: a picture is chosen on the upload step
onFileChange(img) ==
  /\ step = "upload" /\ poseReady /\ uploads < MaxUploads
  /\ modeRef' = "template"
  /\ extracting' = TRUE
  /\ templatePose' = "null"
  /\ templateImageSize' = NullSize
  /\ templateImageUrl' = img
  /\ loading' = Append(loading, img)
  /\ uploads' = uploads + 1
  /\ ScoreCascade(templatePose # "null" \/ ~templateImageSize.isNull,
                  "null", livePose, NullSize, ~templateImageSize.isNull)
  /\ UNCHANGED <<step, poseReady, camVars, pending, livePose,
                 autoCaptureEnabled, captureVars, saveVars, now, siteVars>>

\* the picture of onFileChange cannot be decoded: the Image has no onerror
\* handler, so nothing runs
ImageLoadFailed ==
  /\ loading # <<>>
  /\ loading' = Tail(loading)
  /\ UNCHANGED <<step, poseReady, modeRef, templateVars, uploads, camVars,
                 pending, livePose, scoreVars, autoCaptureEnabled, autoVars,
                 captureVars, saveVars, now, siteVars>>

\* img.onload of onFileChange: sendImageToPose submits the picture
ImageLoaded ==
  /\ loading # <<>> /\ poseReady /\ Len(pending) < MaxPending
  /\ pending' = Append(pending, [origin |-> "template", img |-> Head(loading)])
  /\ loading' = Tail(loading)
  /\ UNCHANGED <<step, poseReady, modeRef, templateVars, uploads, camVars,
                 livePose, scoreVars, autoCaptureEnabled, autoVars, captureVars,
                 saveVars, now, siteVars>>

\* img.onload of the preview effect: fills in a missing template size
PreviewLoaded ==
  /\ step = "upload" /\ templateImageUrl # NullStr /\ ~extracting
  /\ templatePose # "null" /\ DOMAIN Skeleton(templatePose).lm # {}
  /\ templateImageSize.isNull
  /\ templateImageSize' = ImageSize(templateImageUrl)
  /\ ScoreCascade(TRUE, templatePose, livePose, ImageSize(templateImageUrl), TRUE)
  /\ UNCHANGED <<step, poseReady, modeRef, templatePose, templateImageUrl,
                 extracting, uploadVars, camVars, pending, livePose,
                 autoCaptureEnabled, captureVars, saveVars, now, siteVars>>

\* a call of startCameraWithFallback made on this camera step is still
\* awaiting cam.start()
StartPending == step = "camera" /\ ~isCamActive /\ ~camStartFailed

\* the cleanup of the camera start effect, run when the step changes and on
\* unmount: the camera cameraRef holds is stopped
EffectCleanup ==
  /\ isCamActive' = FALSE /\ videoSize' = NullSize /\ canvasBox' = NullBox
  /\ activeCameras' = IF isCamActive THEN activeCameras - 1 ELSE activeCameras

\* what leaving the camera step does to a start that is still pending: it
\* goes on in the background (starts beyond MaxStale are taken to fail)
StartsLeftBehind ==
  IF StartPending /\ staleStarts < MaxStale THEN staleStarts + 1 ELSE staleStarts

\* handleProceed: the Start matching button
handleProceed ==
  /\ step = "upload" /\ templateImageUrl # NullStr /\ ~extracting
  /\ templatePose # "null"
  /\ modeRef' = "live"
  /\ step' = "camera"
  /\ EffectCleanup
  /\ camStartFailed' = FALSE /\ staleStarts' = staleStarts
  /\ UNCHANGED <<poseReady, templateVars, uploadVars, camError, pending,
                 livePose, scoreVars, autoCaptureEnabled, autoVars, captureVars,
                 saveVars, now, siteVars>>

\* startCameraWithFallback succeeds, at one of the given resolutions, after
\* the camera step is entered
CameraStarted(resolutions) ==
  /\ step = "camera" /\ ~isCamActive /\ ~camStartFailed
  /\ isCamActive' = TRUE
  /\ camError' = NullStr
  /\ activeCameras' = activeCameras + 1
  /\ \E res \in resolutions : videoSize' = res
  /\ UNCHANGED <<step, poseReady, modeRef, templateVars, uploadVars, pending,
                 canvasBox, camStartFailed, staleStarts,
                 livePose, scoreVars, autoCaptureEnabled, autoVars, captureVars,
                 saveVars, now, siteVars>>

\* startCameraWithFallback fails at every resolution: each failure is caught
\* and logged, and the function returns after the last one
CameraStartFailed ==
  /\ step = "camera" /\ ~isCamActive /\ ~camStartFailed
  /\ camStartFailed' = TRUE
  /\ UNCHANGED <<step, poseReady, modeRef, templateVars, uploadVars, pending,
                 isCamActive, videoSize, canvasBox, camError, staleStarts,
                 activeCameras,
                 livePose, scoreVars, autoCaptureEnabled, autoVars, captureVars,
                 saveVars, now, siteVars>>

\* a start left behind by Back or by leaving the page succeeds: cameraRef
\* and isCamActive are set although no camera step is shown
StaleCameraStarted ==
  /\ staleStarts > 0 /\ step \in {"upload", "unmounted"}
  /\ activeCameras < MaxCameras
  /\ staleStarts' = staleStarts - 1
  /\ activeCameras' = activeCameras + 1
  /\ isCamActive' = (step = "upload")
  /\ camError' = IF step = "upload" THEN NullStr ELSE camError
  /\ UNCHANGED <<step, poseReady, modeRef, templateVars, uploadVars, pending,
                 videoSize, canvasBox, camStartFailed,
                 livePose, scoreVars, autoCaptureEnabled, autoVars, captureVars,
                 saveVars, now, siteVars>>

\* a start left behind fails at every resolution
StaleStartFailed ==
  /\ staleStarts > 0
  /\ staleStarts' = staleStarts - 1
  /\ UNCHANGED <<step, poseReady, modeRef, templateVars, uploadVars, pending,
                 isCamActive, videoSize, canvasBox, camError, camStartFailed,
                 activeCameras,
                 livePose, scoreVars, autoCaptureEnabled, autoVars, captureVars,
                 saveVars, now, siteVars>>

\* onFrame: the camera submits a frame; it awaits the previous frame's send
onFrame ==
  /\ step = "camera" /\ isCamActive /\ poseReady /\ Len(pending) < MaxPending
  /\ \A k \in 1..Len(pending) : pending[k].origin # "live"
  /\ pending' = Append(pending, [origin |-> "live", img |-> "frame"])
  /\ UNCHANGED <<step, poseReady, modeRef, templateVars, uploadVars, camVars,
                 livePose, scoreVars, autoCaptureEnabled, autoVars, captureVars,
                 saveVars, now, siteVars>>

\* handleResults with the two branches exchanged
handleResultsSwapped(landmarks) ==
  IF modeRef = "live"
  THEN /\ templatePose' = landmarks
       /\ extracting' = FALSE
       /\ modeRef' = modeRef
       /\ livePose' = livePose
       /\ ScoreCascade(~(landmarks = "null" /\ templatePose = "null"), landmarks,
                       livePose, templateImageSize, FALSE)
  ELSE /\ livePose' = landmarks
       /\ templatePose' = templatePose
       /\ extracting' = extracting
       /\ modeRef' = IF landmarks = "null" THEN "template" ELSE "live"
       /\ ScoreCascade(~(landmarks = "null" /\ livePose = "null"), templatePose,
                       landmarks, templateImageSize, FALSE)

\* handleResults: the single result callback, routed by modeRef
handleResults(landmarks) ==
  IF modeRef = "template"
  THEN /\ templatePose' = landmarks
       /\ extracting' = FALSE
       /\ modeRef' = IF landmarks = "null" THEN "template" ELSE "live"
       /\ livePose' = livePose
       /\ ScoreCascade(~(landmarks = "null" /\ templatePose = "null"), landmarks,
                       livePose, templateImageSize, FALSE)
  ELSE /\ livePose' = landmarks
       /\ templatePose' = templatePose
       /\ extracting' = extracting
       /\ modeRef' = modeRef
       /\ ScoreCascade(~(landmarks = "null" /\ livePose = "null"), templatePose,
                       landmarks, templateImageSize, FALSE)

\* the detector answers its oldest outstanding submission
Deliver(poses) ==
  /\ pending # <<>>
  /\ \E landmarks \in IF Head(pending).origin = "template"
                      THEN {ImagePose(Head(pending).img)} ELSE poses :
       handleResults(landmarks)
  /\ pending' = Tail(pending)
  /\ UNCHANGED <<step, poseReady, templateImageSize, templateImageUrl,
                 uploadVars, camVars, autoCaptureEnabled, captureVars,
                 saveVars, now, siteVars>>

\* performCapture without the isCapturingRef test
performCaptureUnguarded(captureType, score) ==
  IF ~isCamActive
  THEN UNCHANGED captureVars
  ELSE /\ isCapturing' = TRUE
       /\ capturedPhoto' = captures + 1
       /\ captures' = captures + 1
       /\ lastCaptureType' = captureType
       /\ pendingPoseName' = "Custom Pose"
       /\ pendingScore' = score
       /\ pendingCaptureType' = captureType
       /\ showSuccessModal' = TRUE
       /\ photoBox' = CaptureBoxes[videoSize][templateImageSize]

\* performCapture that returns unless the pose is matched
performCaptureWhenMatched(captureType, score) ==
  IF score < HOLD_SCORE
  THEN UNCHANGED captureVars
  ELSE performCaptureUnguarded(captureType, score)

\* performCapture: render the frame and stage it for confirmation
performCapture(captureType, score) ==
  IF isCapturing \/ ~isCamActive
  THEN UNCHANGED captureVars
  ELSE /\ isCapturing' = TRUE
       /\ capturedPhoto' = captures + 1
       /\ captures' = captures + 1
       /\ lastCaptureType' = captureType
       /\ pendingPoseName' = "Custom Pose"
       /\ pendingScore' = score
       /\ pendingCaptureType' = captureType
       /\ showSuccessModal' = TRUE
       /\ photoBox' = CaptureBoxes[videoSize][templateImageSize]

\* the Take picture button, shown while the modal is closed
TakePicture ==
  /\ step = "camera" /\ ~showSuccessModal
  /\ isCapturing \/ ~isCamActive \/ captures < MaxCaptures
  /\ performCapture("manual", matchScore)
  /\ UNCHANGED <<step, poseReady, modeRef, templateVars, uploadVars, camVars,
                 pending, livePose, scoreVars, autoCaptureEnabled, autoVars,
                 saveVars, now, siteVars>>

\* one tick of the countdown interval started by startCountdown
CountdownTick ==
  /\ countdownTimer # Null /\ now >= countdownTimer
  /\ isCapturing \/ ~isCamActive \/ captures < MaxCaptures
  /\ IF step = "unmounted"
     \* setCountdown on an unmounted component changes no state; React may or
     \* may not evaluate the updater, which at 1 clears the interval and
     \* calls performCapture, which returns for want of a video element
     THEN /\ \/ SetAuto([AutoState EXCEPT !.timer = now + TICK_MS])
             \/ /\ countdown # Null /\ countdown <= 1
                /\ SetAuto([AutoState EXCEPT !.timer = Null])
          /\ UNCHANGED captureVars
     ELSE IF countdown = Null
     THEN /\ SetAuto([AutoState EXCEPT !.timer = now + TICK_MS])
          /\ UNCHANGED captureVars
     ELSE IF countdown <= 1
     THEN /\ performCapture("auto", closureScore)
          /\ AutoCascade(TRUE, autoCaptureEnabled, matchScore,
                         cancelCountdown(AutoState), isCapturing')
     ELSE /\ UNCHANGED captureVars
          /\ AutoCascade(TRUE, autoCaptureEnabled, matchScore,
                         [AutoState EXCEPT !.cd = countdown - 1,
                                           !.timer = now + TICK_MS],
                         isCapturing)
  /\ UNCHANGED <<step, poseReady, modeRef, templateVars, uploadVars, camVars,
                 pending, livePose, scoreVars, autoCaptureEnabled, saveVars, now, siteVars>>

\* an Auto toggle whose change does not re-run the auto-capture effect
ToggleAutoCaptureNoEffect ==
  /\ step = "camera"
  /\ autoCaptureEnabled' = ~autoCaptureEnabled
  /\ UNCHANGED <<step, poseReady, modeRef, templateVars, uploadVars, camVars,
                 pending, livePose, scoreVars, autoVars, captureVars, saveVars,
                 now, siteVars>>

\* the Auto toggle on the camera step
ToggleAutoCapture ==
  /\ step = "camera"
  /\ autoCaptureEnabled' = ~autoCaptureEnabled
  /\ AutoCascade(TRUE, ~autoCaptureEnabled, matchScore, AutoState, isCapturing)
  /\ UNCHANGED <<step, poseReady, modeRef, templateVars, uploadVars, camVars,
                 pending, livePose, scoreVars, captureVars, saveVars, now, siteVars>>

\* handleResetCapture: back to Idle
handleResetCapture ==
  /\ isCapturing' = FALSE
  /\ showSuccessModal' = FALSE
  /\ capturedPhoto' = Null
  /\ previousScore' = 0
  /\ matchScore' = 0
  /\ lastCaptureType' = NullStr
  /\ saveInFlight' = FALSE
  /\ pendingPoseName' = NullStr
  /\ pendingScore' = Null
  /\ pendingCaptureType' = NullStr
  /\ modeRef' = "template"
  /\ qualSince' = Null
  /\ AutoCascade(matchScore # 0 \/ countdown # Null, autoCaptureEnabled, 0,
                 cancelCountdown(AutoState), FALSE)
  /\ photoBox' = NullBox
  /\ UNCHANGED <<captures, guidancePrompt, lastScoredTemplate>>

\* a Try Again button that hands the staged photo to saveGalleryPhoto
TryAgainSaving ==
  /\ step = "camera" /\ showSuccessModal /\ capturedPhoto # Null
  /\ handleResetCapture
  /\ saving' = saving \cup {capturedPhoto}
  /\ saveCalls' = saveCalls (+) SetToBag({capturedPhoto})
  /\ UNCHANGED <<step, poseReady, templateVars, uploadVars, camVars, pending,
                 livePose, autoCaptureEnabled, gallery, now, siteVars>>

\* the Try Again button of the confirmation modal
TryAgain ==
  /\ step = "camera" /\ showSuccessModal /\ capturedPhoto # Null
  /\ handleResetCapture
  /\ UNCHANGED <<step, poseReady, templateVars, uploadVars, camVars, pending,
                 livePose, autoCaptureEnabled, saving, gallery, saveCalls, now,
                 siteVars>>

\* handleBack on the camera step; leaving the step stops the camera
handleBack ==
  /\ step = "camera"
  /\ handleResetCapture
  /\ step' = "upload"
  /\ EffectCleanup
  /\ staleStarts' = StartsLeftBehind
  /\ camStartFailed' = FALSE
  /\ UNCHANGED <<poseReady, templateVars, uploadVars, pending, livePose,
                 camError, autoCaptureEnabled, saving, gallery, saveCalls, now,
                 siteVars>>

\* a Save to Gallery button that stays enabled while a save is in flight
handleSaveConfirmedAgain ==
  /\ step = "camera" /\ showSuccessModal /\ capturedPhoto # Null
  /\ IF pendingPoseName = NullStr \/ pendingScore = Null \/ pendingCaptureType = NullStr
     THEN handleResetCapture /\ UNCHANGED <<saving, saveCalls>>
     ELSE /\ saveInFlight' = TRUE
          /\ saving' = saving \cup {capturedPhoto}
          /\ saveCalls' = saveCalls (+) SetToBag({capturedPhoto})
          /\ UNCHANGED <<modeRef, scoreVars, autoVars, captureVars>>
  /\ UNCHANGED <<step, poseReady, templateVars, uploadVars, camVars, pending,
                 livePose, autoCaptureEnabled, gallery, now, siteVars>>

\* handleSaveConfirmed up to its await: the Save to Gallery button, disabled
\* while saveInFlight
handleSaveConfirmed ==
  /\ step = "camera" /\ showSuccessModal /\ capturedPhoto # Null /\ ~saveInFlight
  /\ IF pendingPoseName = NullStr \/ pendingScore = Null \/ pendingCaptureType = NullStr
     THEN handleResetCapture /\ UNCHANGED <<saving, saveCalls>>
     ELSE /\ saveInFlight' = TRUE
          /\ saving' = saving \cup {capturedPhoto}
          /\ saveCalls' = saveCalls (+) SetToBag({capturedPhoto})
          /\ UNCHANGED <<modeRef, scoreVars, autoVars, captureVars>>
  /\ UNCHANGED <<step, poseReady, templateVars, uploadVars, camVars, pending,
                 livePose, autoCaptureEnabled, gallery, now, siteVars>>

\* handleSaveConfirmed without the catch: an error of saveGalleryPhoto ends
\* the handler
SaveSettledThrowing(outcomes) ==
  \E photo \in saving, inserted \in outcomes :
     /\ saving' = saving \ {photo}
     /\ gallery' = IF inserted THEN gallery \cup {photo} ELSE gallery
     /\ IF inserted THEN handleResetCapture
        ELSE UNCHANGED <<modeRef, scoreVars, autoVars, captureVars, saveInFlight>>
     /\ UNCHANGED <<step, poseReady, templateVars, uploadVars, camVars, pending,
                    livePose, autoCaptureEnabled, saveCalls, now, siteVars>>

\* handleSaveConfirmed after its await: saveGalleryPhoto inserted the photo
\* and resolved, or threw, and the error is dropped
SaveSettled(outcomes) ==
  /\ \E photo \in saving, inserted \in outcomes :
        /\ saving' = saving \ {photo}
        /\ gallery' = IF inserted THEN gallery \cup {photo} ELSE gallery
  /\ handleResetCapture
  /\ UNCHANGED <<step, poseReady, templateVars, uploadVars, camVars, pending,
                 livePose, autoCaptureEnabled, saveCalls, now, siteVars>>

\* draw: one animation frame of the camera canvas
draw ==
  /\ step = "camera" /\ isCamActive
  /\ canvasBox' = FrameBox(IF videoSize.width = 0 THEN CAM_W ELSE videoSize.width,
                           IF videoSize.height = 0 THEN CAM_H ELSE videoSize.height,
                           templateImageSize)
  /\ UNCHANGED <<step, poseReady, modeRef, templateVars, uploadVars, isCamActive,
                 videoSize, camError, camStartFailed, staleStarts,
                 activeCameras, pending, livePose, scoreVars, autoCaptureEnabled,
                 autoVars, captureVars, saveVars, now, siteVars>>

\* the page is left (browser navigation): the effect cleanups run, which stop
\* the camera and drop the detector; no cleanup clears the countdown interval
Unmount ==
  /\ step # "unmounted"
  /\ step' = "unmounted"
  /\ poseReady' = FALSE
  /\ EffectCleanup
  /\ staleStarts' = StartsLeftBehind
  /\ camStartFailed' = FALSE
  /\ pending' = <<>>
  /\ loading' = <<>>
  /\ UNCHANGED <<modeRef, templateVars, uploads, camError, livePose, scoreVars,
                 autoCaptureEnabled, autoVars, captureVars, saveVars, now, siteVars>>

\* the site receives a request; the middleware runs on the paths of
\* config.matcher, every other path is rendered directly
HandleRequest ==
  /\ \E pathname \in RequestPaths, search \in Searches, user \in BOOLEAN :
       LET req == [isNull |-> FALSE, pathname |-> pathname, search |-> search,
                   user |-> user]
       IN /\ request' = req
          /\ response' = IF matcher(pathname) THEN middleware(req) ELSE Served
  /\ UNCHANGED <<step, poseReady, modeRef, templateVars, uploadVars, camVars,
                 pending, livePose, scoreVars, autoCaptureEnabled, autoVars,
                 captureVars, saveVars, now, storeVars, manualVars>>

\* the user signs in or out, or getUser starts or stops failing
AuthChange ==
  /\ \E sess \in {"none", "user", "error"} \ {session} : session' = sess
  /\ UNCHANGED <<step, poseReady, modeRef, templateVars, uploadVars, camVars,
                 pending, livePose, scoreVars, autoCaptureEnabled, autoVars,
                 captureVars, saveVars, now, request, response, env,
                 savedPhotos, storageCall, manualVars>>

\* a page calls a storage function: the configuration test and requireUserId
StorageBegin ==
  /\ storageCall.phase # "identified"
  /\ \E fn \in StorageFns, id \in PhotoIds :
       storageCall' = [fn |-> fn, id |-> id, phase |-> BeginPhase]
  /\ UNCHANGED <<step, poseReady, modeRef, templateVars, uploadVars, camVars,
                 pending, livePose, scoreVars, autoCaptureEnabled, autoVars,
                 captureVars, saveVars, now, request, response, env, session,
                 savedPhotos, manualVars>>

\* handleSaveToGallery of the camera page: ensureUser, then saveGalleryPhoto
\* on the captured photo or the current frame
handleSaveToGallery ==
  /\ storageCall.phase # "identified"
  /\ \E id \in PhotoIds, frame \in BOOLEAN :
       storageCall' = [fn |-> "handleSaveToGallery", id |-> id,
                       phase |-> IF session # "user" THEN "login"
                                 ELSE IF ~frame THEN "noFrame"
                                 ELSE BeginPhase]
  /\ UNCHANGED <<step, poseReady, modeRef, templateVars, uploadVars, camVars,
                 pending, livePose, scoreVars, autoCaptureEnabled, autoVars,
                 captureVars, saveVars, now, request, response, env, session,
                 savedPhotos, manualVars>>

\* the table query of the storage call under way: it succeeds or fails
StorageQuery ==
  /\ storageCall.phase = "identified"
  /\ \E ok \in BOOLEAN :
       /\ storageCall' = [storageCall EXCEPT
                            !.phase = IF ok THEN "returned" ELSE "queryError"]
       /\ savedPhotos' =
            IF ok /\ storageCall.fn = "savePhotoRemote"
            THEN savedPhotos \cup {storageCall.id}
            ELSE IF ok /\ storageCall.fn = "deletePhotoRemote"
            THEN savedPhotos \ {storageCall.id}
            ELSE savedPhotos
       /\ gallery' =
            IF ok /\ storageCall.fn \in {"saveGalleryPhoto", "handleSaveToGallery"}
            THEN gallery \cup {storageCall.id}
            ELSE IF ok /\ storageCall.fn = "deleteGalleryPhoto"
            THEN gallery \ {storageCall.id}
            ELSE gallery
  /\ UNCHANGED <<step, poseReady, modeRef, templateVars, uploadVars, camVars,
                 pending, livePose, scoreVars, autoCaptureEnabled, autoVars,
                 captureVars, saveInFlight, saving, saveCalls, now, request,
                 response, env, session, manualVars>>

\* wall-clock time passes
AdvanceTime(steps) ==
  /\ \E d \in steps : now + d <= MaxTime /\ now' = now + d
  /\ UNCHANGED <<step, poseReady, modeRef, templateVars, uploadVars, camVars,
                 pending, livePose, scoreVars, autoCaptureEnabled, autoVars,
                 captureVars, saveVars, siteVars>>

\* The page from the upload step on, in front of a subject of whom only four
\* key landmarks are visible: the score stays 0, no hold begins and the clock
\* is never read, so no time passes here. Supabase is not configured, so
\* every saveGalleryPhoto call throws.
Next ==
  \/ PoseInitialized
  \/ \E img \in Images : onFileChange(img)
  \/ ImageLoaded
  \/ PreviewLoaded
  \/ handleProceed
  \/ CameraStarted({FirstResolution})
  \/ onFrame
  \/ Deliver(LivePoses)
  \/ TakePicture
  \/ ToggleAutoCapture
  \/ TryAgain
  \/ handleBack
  \/ handleSaveConfirmed
  \/ SaveSettled({FALSE})

Spec == Init /\ [][Next]_vars

\* template acquisition: every chosen picture loads or fails to load, and the
\* detector answers every submission
AcquireNext ==
  \/ PoseInitialized
  \/ \E img \in Images : onFileChange(img)
  \/ ImageLoaded
  \/ ImageLoadFailed
  \/ PreviewLoaded
  \/ handleProceed
  \/ CameraStarted({FirstResolution})
  \/ onFrame
  \/ Deliver(LivePoses)
  \/ handleBack

AcquireSpec ==
  /\ Init /\ [][AcquireNext]_vars
  /\ WF_vars(ImageLoaded \/ ImageLoadFailed)
  /\ WF_vars(Deliver(LivePoses))

\* ------------------------------------------------- camera-session specs
\* The camera step with the given template, template size, live pose and
\* smoothing accumulator, with no hold, countdown or capture under way.
CameraSession(tp, size, lp, acc, cam) ==
  /\ step = "camera" /\ poseReady = TRUE /\ modeRef = "live"
  /\ templatePose = tp /\ templateImageSize = size
  /\ templateImageUrl = "person" /\ extracting = FALSE
  /\ loading = <<>> /\ uploads = 1
  /\ isCamActive = cam
  /\ videoSize = (IF cam THEN FirstResolution ELSE NullSize)
  /\ canvasBox = NullBox
  /\ camError = NullStr /\ camStartFailed = FALSE
  /\ staleStarts = 0 /\ activeCameras = (IF cam THEN 1 ELSE 0)
  /\ pending = <<>>
  /\ livePose = lp /\ matchScore = RoundScore(acc) /\ previousScore = acc
  /\ guidancePrompt = NullStr
  /\ lastScoredTemplate = tp
  /\ autoCaptureEnabled = TRUE /\ countdown = Null /\ countdownTimer = Null
  /\ closureScore = Null /\ autoHoldStart = Null
  /\ isCapturing = FALSE /\ capturedPhoto = Null /\ showSuccessModal = FALSE
  /\ lastCaptureType = NullStr /\ saveInFlight = FALSE
  /\ pendingPoseName = NullStr /\ pendingScore = Null
  /\ pendingCaptureType = NullStr /\ saving = {} /\ gallery = {}
  /\ saveCalls = EmptyBag
  /\ captures = 0
  /\ photoBox = NullBox
  /\ now = 1 /\ qualSince = Null
  /\ SiteInit

\* the same on a configured site with a signed-in user
Session(tp, size, lp, acc, cam) ==
  CameraSession(tp, size, lp, acc, cam) /\ env = EnvProject /\ session = "user"

\* right after Start matching on the picture "person", camera not yet started
SessionInit == Session("exact", ImageSize("person"), "null", 0, FALSE)

\* a camera session in front of a subject holding the template pose
CaptureNext ==
  \/ CameraStarted({FirstResolution})
  \/ onFrame
  \/ Deliver(CapturePoses)
  \/ TakePicture
  \/ CountdownTick
  \/ TryAgain
  \/ AdvanceTime(TimeSteps)

CaptureSpec == SessionInit /\ [][CaptureNext]_vars

\* a camera session in which captures are confirmed or retried; a save
\* inserts the photo or throws
ConfirmTimeSteps == {3000}

ConfirmNext ==
  \/ CameraStarted({FirstResolution})
  \/ onFrame
  \/ Deliver(CapturePoses)
  \/ TakePicture
  \/ CountdownTick
  \/ TryAgain
  \/ handleSaveConfirmed
  \/ SaveSettled(BOOLEAN)
  \/ AdvanceTime(ConfirmTimeSteps)

ConfirmSpec == SessionInit /\ [][ConfirmNext]_vars

\* the same session with a persistence service that accepts every save
RetryNext ==
  \/ CameraStarted({FirstResolution})
  \/ onFrame
  \/ Deliver(CapturePoses)
  \/ TakePicture
  \/ CountdownTick
  \/ TryAgain
  \/ handleSaveConfirmed
  \/ SaveSettled({TRUE})
  \/ AdvanceTime(ConfirmTimeSteps)

RetrySpec == SessionInit /\ [][RetryNext]_vars

\* a camera session that is left with Back or by navigating away
LeaveNext ==
  \/ CameraStarted({FirstResolution})
  \/ onFrame
  \/ Deliver(HoldPoses)
  \/ CountdownTick
  \/ ToggleAutoCapture
  \/ handleBack
  \/ Unmount
  \/ AdvanceTime(HoldTimeSteps)

LeaveSpec == SessionInit /\ [][LeaveNext]_vars

\* a camera session in front of a subject moving between a near and a far
\* match, up to the first capture
HoldNext ==
  \/ CameraStarted({FirstResolution})
  \/ onFrame
  \/ Deliver(HoldPoses)
  \/ CountdownTick
  \/ ToggleAutoCapture
  \/ AdvanceTime(HoldTimeSteps)

HoldSpec == SessionInit /\ [][HoldNext]_vars

\* a camera session in which the user may take a picture at any moment and
\* switch auto-capture on and off
ManualNext ==
  \/ CameraStarted({FirstResolution})
  \/ onFrame
  \/ Deliver(CapturePoses)
  \/ TakePicture
  \/ CountdownTick
  \/ ToggleAutoCapture
  \/ TryAgain
  \/ AdvanceTime(TimeSteps)

ManualSpec == SessionInit /\ [][ManualNext]_vars

\* a camera session on a device whose camera starts at one of the three
\* resolutions or at none
StartNext ==
  \/ CameraStarted(Resolutions)
  \/ CameraStartFailed
  \/ StaleCameraStarted
  \/ StaleStartFailed
  \/ onFrame
  \/ Deliver(CapturePoses)
  \/ TakePicture
  \/ TryAgain
  \/ ToggleAutoCapture
  \/ handleBack
  \/ handleProceed

StartSpec == SessionInit /\ [][StartNext]_vars

\* ------------------------------------------------------- scorer harness
\* computeMatchScore and getSmoothedScore on every template, live pose and
\* template size of the tables above (every template with the size of its
\* picture, the null, empty and standing templates with every size): each
\* frame the detector may report any of the poses
ScoreInit ==
  \E tp \in PoseIds, size \in SizeSet :
     /\ tp \in {"null", "empty", "exact"} \/ size = ImageSize("person")
     /\ Session(tp, size, "null", 0, TRUE)

ScoreNext ==
  \/ onFrame
  \/ Deliver(PoseIds)

ScoreSpec == ScoreInit /\ [][ScoreNext]_vars

\* getSmoothedScore on a constant raw score: the subject holds still, the
\* detector reports the same landmarks on every frame, and the accumulator
\* starts anywhere in 0..100
StillPoses == {"exact", "near", "far", "low", "away", "occluded"}

SmoothInit ==
  \E lp \in StillPoses, acc \in 0..(100 * SCORE_SCALE) :
     Session("exact", ImageSize("person"), lp, acc, TRUE)

SmoothNext ==
  \/ onFrame
  \/ Deliver({livePose})

SmoothSpec == SmoothInit /\ [][SmoothNext]_vars /\ WF_vars(SmoothNext)

\* the subject walks out of the frame: whatever the accumulator and the last
\* live skeleton were, every later camera frame comes back with no landmarks
AbsentInit ==
  \E lp \in StillPoses, acc \in 0..(100 * SCORE_SCALE) :
     Session("exact", ImageSize("person"), lp, acc, TRUE)

AbsentNext ==
  \/ onFrame
  \/ Deliver({"null"})

AbsentSpec == AbsentInit /\ [][AbsentNext]_vars /\ WF_vars(AbsentNext)

\* ------------------------------------------------------ manual camera page
\* src/app/camera/page.tsx: the same template and live slots, scorer and
\* smoothing, with a success banner instead of the auto-capture
SUCCESS_THRESHOLD == 78
SUCCESS_HOLD_FRAMES == 4

\* the success branch of the scoring effect without setDisplaySuccess(false)
SuccessHoldSticky(score, count, shown) ==
  IF score >= SUCCESS_THRESHOLD
  THEN [count |-> count + 1,
        shown |-> IF count + 1 >= SUCCESS_HOLD_FRAMES THEN TRUE ELSE shown]
  ELSE [count |-> 0, shown |-> shown]

\* the success branch of the scoring effect: the hold counter and the banner
SuccessHold(score, count, shown) ==
  IF score >= SUCCESS_THRESHOLD
  THEN [count |-> count + 1,
        shown |-> IF count + 1 >= SUCCESS_HOLD_FRAMES THEN TRUE ELSE shown]
  ELSE [count |-> 0, shown |-> FALSE]

\* the newest SUCCESS_HOLD_FRAMES entries of a sequence of scores
Newest(ticks) ==
  IF Len(ticks) <= SUCCESS_HOLD_FRAMES THEN ticks
  ELSE SubSeq(ticks, Len(ticks) - SUCCESS_HOLD_FRAMES + 1, Len(ticks))

\* the assignments of one scoring tick: s is the smoothed score with its
\* prompt, h the hold counter and the banner
ManualTick(s, h) ==
  /\ h.count <= MaxHoldCount
  /\ previousScore' = s.previous
  /\ matchScore' = s.score
  /\ guidancePrompt' = s.guidance
  /\ successHoldCount' = h.count
  /\ displaySuccess' = h.shown
  /\ lastTicks' = Newest(Append(lastTicks, s.score))

\* the success branch applied to the smoothed score of the tick
ManualScored(s) ==
  ManualTick(s, SuccessHold(s.score, successHoldCount, displaySuccess))

\* Scoring + guidance + displaySuccess effect of the manual page, run when
\* templatePose, livePose or templateImageSize changed; at a score of 78 or
\* more the prompt is null, as it is for every score of 50 or more
ManualScoringEffect(runs, tp, lp, size) ==
  IF runs
  THEN ManualScored(ScoringEffect(tp, lp, size, previousScore))
  ELSE UNCHANGED <<previousScore, matchScore, guidancePrompt, manualVars>>

\* onFileChange of the manual page
manualOnFileChange ==
  /\ step = "upload" /\ poseReady
  /\ \E img \in Images : templateImageUrl' = img
  /\ modeRef' = "template"
  /\ extracting' = TRUE
  /\ templatePose' = "null"
  /\ templateImageSize' = NullSize
  /\ ManualScoringEffect(templatePose # "null" \/ ~templateImageSize.isNull,
                         "null", livePose, NullSize)
  /\ UNCHANGED <<step, poseReady, uploadVars, camVars, pending, livePose,
                 qualSince, lastScoredTemplate, autoCaptureEnabled, autoVars,
                 captureVars, saveVars, now, request, response, storeVars>>

\* handleResults of the manual page: the detector answers the picture chosen
\* last, or a camera frame
manualHandleResults(poses) ==
  /\ IF modeRef = "template"
     THEN /\ extracting
          /\ LET landmarks == ImagePose(templateImageUrl)
             IN /\ templatePose' = landmarks
                /\ modeRef' = IF landmarks # "null" THEN "live" ELSE modeRef
                /\ ManualScoringEffect(~(landmarks = "null" /\ templatePose = "null"),
                                       landmarks, livePose, templateImageSize)
          /\ extracting' = FALSE
          /\ UNCHANGED livePose
     ELSE /\ step = "camera"
          /\ \E landmarks \in poses :
                /\ livePose' = landmarks
                /\ ManualScoringEffect(~(landmarks = "null" /\ livePose = "null"),
                                       templatePose, landmarks, templateImageSize)
          /\ UNCHANGED <<modeRef, templatePose, extracting>>
  /\ UNCHANGED <<step, poseReady, templateImageSize, templateImageUrl,
                 uploadVars, camVars, pending, qualSince, lastScoredTemplate,
                 autoCaptureEnabled, autoVars, captureVars, saveVars, now,
                 request, response, storeVars>>

\* img.onload of the preview effect of the manual page
manualPreviewLoaded ==
  /\ step = "upload" /\ templateImageUrl # NullStr /\ templatePose # "null"
  /\ templateImageSize.isNull
  /\ templateImageSize' = ImageSize(templateImageUrl)
  /\ ManualScoringEffect(TRUE, templatePose, livePose,
                         ImageSize(templateImageUrl))
  /\ UNCHANGED <<step, poseReady, modeRef, templatePose, templateImageUrl,
                 extracting, uploadVars, camVars, pending, livePose, qualSince,
                 lastScoredTemplate, autoCaptureEnabled, autoVars, captureVars,
                 saveVars, now, request, response, storeVars>>

\* handleProceed of the manual page
manualHandleProceed ==
  /\ step = "upload" /\ templatePose # "null"
  /\ modeRef' = "live"
  /\ step' = "camera"
  /\ UNCHANGED <<poseReady, templateVars, uploadVars, camVars, pending,
                 livePose, scoreVars, autoCaptureEnabled, autoVars, captureVars,
                 saveVars, now, siteVars>>

\* handleBack of the manual page on the camera step
manualHandleBack ==
  /\ step = "camera"
  /\ modeRef' = "template"
  /\ step' = "upload"
  /\ UNCHANGED <<poseReady, templateVars, uploadVars, camVars, pending,
                 livePose, scoreVars, autoCaptureEnabled, autoVars, captureVars,
                 saveVars, now, siteVars>>

\* what the detector reports for the frames of the manual page
ManualPoses == {"exact", "near", "away", "null"}

ManualPageNext ==
  \/ PoseInitialized
  \/ manualOnFileChange
  \/ manualHandleResults(ManualPoses)
  \/ manualPreviewLoaded
  \/ manualHandleProceed
  \/ manualHandleBack

ManualPageSpec == Init /\ [][ManualPageNext]_vars

\* ------------------------------------------------------ letterbox harness
\* the camera step for every template size and camera resolution: frames are
\* scored, drawn and captured
BoxInit == \E size \in SizeSet : Session("exact", size, "null", 0, FALSE)

BoxNext ==
  \/ CameraStarted(Resolutions)
  \/ draw
  \/ onFrame
  \/ Deliver(CapturePoses)
  \/ TakePicture
  \/ TryAgain

BoxSpec == BoxInit /\ [][BoxNext]_vars

\* ------------------------------------------------------- guidance harness
\* the camera step against several templates; the subject stands left or
\* right of the centre, too near or too far
GuideTemplates == {"exact", "away", "arms"}

GuideInit ==
  \E tp \in GuideTemplates : Session(tp, Size(640, 480), "null", 0, TRUE)

GuideNext ==
  \/ onFrame
  \/ Deliver(GuidePoses)

GuideSpec == GuideInit /\ [][GuideNext]_vars

\* ----------------------------------------------------------- the site
\* requests arriving at the site under every configuration, before any
\* page is used
SiteSpecInit == Mounted /\ env \in Envs /\ session = "none"

SiteNext ==
  \/ HandleRequest

SiteSpec == SiteSpecInit /\ [][SiteNext]_vars

\* the pages that use the storage module, with users signing in and out,
\* on a site with no configuration, with a project key and with a key the
\* storage module does not accept
StorageEnvs == {EnvUnset, EnvProject,
                Env("https://project.supabase.co", <<"e", "y", "J", "x">>)}

StorageInit ==
  /\ CameraSession("exact", ImageSize("person"), "null", 0, FALSE)
  /\ env \in StorageEnvs /\ session = "none"

StorageNext ==
  \/ AuthChange
  \/ StorageBegin
  \/ StorageQuery
  \/ handleSaveToGallery
  \/ CameraStarted({FirstResolution})
  \/ TakePicture
  \/ handleSaveConfirmed
  \/ SaveSettled(InsertOutcomes)
  \/ TryAgain

StorageSpec == StorageInit /\ [][StorageNext]_vars

\* ----------------------------------------------------------- properties
\* the raw score of the state's template, live pose and template size
RawNow == RawScore[templatePose][livePose][templateImageSize]

\* a step in which the detector answered its oldest submission
Delivered == pending # <<>> /\ pending' = Tail(pending)

\* C1: while a capture is in flight, invoking performCapture changes nothing:
\* as long as the in-flight flag stays set, the staged photo, score, capture
\* type, pose name and the modal are unchanged and no still is rendered; a
\* still is rendered only with no capture in flight and nothing staged.
C1_InFlightCaptureIsNoOp ==
  [][ /\ (isCapturing /\ isCapturing') =>
           UNCHANGED <<capturedPhoto, captures, pendingScore, pendingCaptureType,
                       pendingPoseName, lastCaptureType, showSuccessModal>>
      /\ (captures' # captures) =>
           (~isCapturing /\ capturedPhoto = Null /\ captures' = captures + 1
            /\ capturedPhoto' = captures') ]_vars

\* a manual capture is being confirmed while the countdown it interrupted
\* is about to expire and call performCapture
C1_ExpiryWhileConfirming ==
  /\ isCapturing /\ showSuccessModal /\ pendingCaptureType = "manual"
  /\ countdown = 1 /\ countdownTimer # Null /\ now >= countdownTimer

\* C2: a result delivered while modeRef is 'live' leaves the template
\* skeleton alone, and one delivered while modeRef is 'template' leaves the
\* live skeleton alone.
C2_ModeIsolation ==
  [][Delivered =>
       /\ (modeRef = "live" => templatePose' = templatePose /\ extracting' = extracting)
       /\ (modeRef = "template" => livePose' = livePose)]_vars

\* a live result has been stored next to an extracted template
C2_LiveResultStored ==
  modeRef = "live" /\ templatePose = "exact" /\ livePose = "occluded"

\* C3: a result is applied only to the slot of the submission that produced
\* it: the result of a camera frame leaves the template skeleton alone and
\* the result of a template picture leaves the live skeleton alone.
C3_ResultGoesToItsOwnSlot ==
  [][Delivered =>
       /\ (Head(pending).origin = "live" =>
             templatePose' = templatePose /\ extracting' = extracting)
       /\ (Head(pending).origin = "template" => livePose' = livePose)]_vars

\* C4: a countdown starts only with auto-capture enabled and a hold-start
\* timestamp at least 3000 ms old that was recorded no earlier than the first
\* tick of the current unbroken run of ticks with score >= 80.
C4_CountdownOnlyAfterHold ==
  [][(countdown = Null /\ countdown' # Null) =>
       /\ autoCaptureEnabled'
       /\ matchScore' >= HOLD_SCORE
       /\ qualSince' # Null /\ autoHoldStart' # Null
       /\ qualSince' <= autoHoldStart'
       /\ now' - autoHoldStart' >= HOLD_MS]_vars

\* a countdown started exactly 3000 ms after the hold began
C4_CountdownAtHoldMs ==
  countdown = COUNTDOWN_FROM /\ autoHoldStart # Null
  /\ countdownTimer = autoHoldStart + HOLD_MS + TICK_MS

\* C5: after a scoring tick with auto-capture enabled, no capture in flight,
\* the score >= 80 and a hold recorded 3000 ms or more ago, a countdown runs.
C5_HeldScoreStartsCountdown ==
  [][(/\ Delivered
      /\ autoCaptureEnabled' /\ ~isCapturing'
      /\ matchScore' >= HOLD_SCORE
      /\ autoHoldStart' # Null /\ now' - autoHoldStart' >= HOLD_MS)
     => countdown' # Null]_vars

\* C6: with the score below 80 there is no hold timestamp and no countdown;
\* a hold timestamp is never older than the first qualifying tick of the
\* current run, and a countdown runs only 3000 ms or more after that tick.
C6_DipResetsHold ==
  /\ matchScore < HOLD_SCORE =>
       autoHoldStart = Null /\ countdown = Null /\ countdownTimer = Null
  /\ autoHoldStart # Null => qualSince # Null /\ qualSince <= autoHoldStart
  /\ countdown # Null => qualSince # Null /\ now - qualSince >= HOLD_MS

\* the far pose has just pulled the score from 80 or more down to 79
C6_ScoreDipped ==
  /\ livePose = "far" /\ matchScore = HOLD_SCORE - 1
  /\ autoHoldStart = Null /\ countdown = Null /\ now > HOLD_MS

\* C7: the raw score is in 0..100 and so are the smoothed score and its
\* accumulator.
C7_ScoreBounds ==
  /\ RawNow \in 0..100
  /\ matchScore \in 0..100
  /\ previousScore \in 0..(100 * SCORE_SCALE)

\* the smoothed score reached the upper bound
C7_FullScore ==
  templatePose = "exact" /\ livePose = "exact" /\ matchScore = 100

\* key indices present on both sides whose visibility, where the detector
\* gives none taken as 1, is at least 0.5 on both sides
MutuallyVisible(template, live) ==
  {i \in KeySet :
     /\ i \in DOMAIN template.lm /\ i \in DOMAIN live.lm
     /\ ("visibility" \in DOMAIN template.lm[i] => template.lm[i].visibility >= VISIBLE_PCT)
     /\ ("visibility" \in DOMAIN live.lm[i] => live.lm[i].visibility >= VISIBLE_PCT)}

\* key indices present on both sides with a visibility value of at least 0.5
\* on both sides
RatedVisible(template, live) ==
  {i \in KeySet :
     /\ i \in DOMAIN template.lm /\ i \in DOMAIN live.lm
     /\ "visibility" \in DOMAIN template.lm[i] /\ template.lm[i].visibility >= VISIBLE_PCT
     /\ "visibility" \in DOMAIN live.lm[i] /\ live.lm[i].visibility >= VISIBLE_PCT}

\* C8 (amended): with fewer than 5 key indices mutually visible, a landmark
\* without a visibility value counting as visible, the raw score is 0.
C8_VisibilityFloor ==
  Cardinality(MutuallyVisible(Skeleton(templatePose), Skeleton(livePose)))
      < MIN_VISIBLE_LANDMARKS
    => RawNow = 0

\* a subject standing exactly in the template pose with four key landmarks
\* visible, scored after a full match
C8_OccludedMatch ==
  /\ templatePose = "exact" /\ livePose = "occluded"
  /\ previousScore > 0 /\ matchScore < HOLD_SCORE

\* C8 (as stated): with fewer than 5 key indices carrying a visibility of at
\* least 0.5 on both sides, the raw score is 0.
C8_FloorOnRatedVisibility ==
  Cardinality(RatedVisible(Skeleton(templatePose), Skeleton(livePose)))
      < MIN_VISIBLE_LANDMARKS
    => RawNow = 0

\* C9: a null template, a null live pose or an empty skeleton scores 0, for
\* every template size, the null size included.
C9_NullSafety ==
  (\/ Skeleton(templatePose).isNull \/ Skeleton(livePose).isNull
   \/ DOMAIN Skeleton(templatePose).lm = {} \/ DOMAIN Skeleton(livePose).lm = {})
    => RawNow = 0

\* the subject left the frame after matching a template of unknown size
C9_LostSubject ==
  /\ templatePose = "exact" /\ livePose = "null" /\ templateImageSize = NullSize
  /\ previousScore > 0

ScorerBox == FrameBox(CAM_W, CAM_H, templateImageSize)

\* b is the letterbox box of its frame for a template of the given size
BoxCorrect(b, size) ==
  LET w == IF size.isNull THEN b.Cw ELSE size.width
      h == IF size.isNull THEN b.Ch ELSE size.height
      aw == w \div Gcd(w, h)
      ah == h \div Gcd(w, h)
  IN /\ IF aw * b.Ch < b.Cw * ah
        THEN /\ b.boxH = b.den * b.Ch
             /\ b.boxW * ah = b.den * b.Ch * aw
             /\ 2 * b.boxX = b.den * b.Cw - b.boxW
             /\ b.boxY = 0
        ELSE /\ b.boxW = b.den * b.Cw
             /\ b.boxH * aw = b.den * b.Cw * ah
             /\ b.boxX = 0
             /\ 2 * b.boxY = b.den * b.Ch - b.boxH
     \* the template's aspect ratio
     /\ b.boxW * ah = b.boxH * aw
     \* centred
     /\ 2 * b.boxX + b.boxW = b.den * b.Cw
     /\ 2 * b.boxY + b.boxH = b.den * b.Ch
     \* inside the frame
     /\ b.boxX >= 0 /\ b.boxY >= 0 /\ b.boxW > 0 /\ b.boxH > 0
     /\ b.boxX + b.boxW <= b.den * b.Cw
     /\ b.boxY + b.boxH <= b.den * b.Ch

\* C11: the box of the scorer, of the last draw and of the staged photo is
\* the letterbox box of its frame: full height and width Ch*A_t when the
\* template is narrower than the frame, full width and height Cw/A_t
\* otherwise; it has the template's aspect ratio, is centred and lies inside
\* the frame.
C11_LetterboxCorrect ==
  /\ BoxCorrect(ScorerBox, templateImageSize)
  /\ ~canvasBox.isNull => BoxCorrect(canvasBox, templateImageSize)
  /\ ~photoBox.isNull => BoxCorrect(photoBox, templateImageSize)

\* a portrait template drawn and captured on a 1920x1080 frame
C11_PortraitOnWideFrame ==
  /\ templateImageSize = Size(480, 640) /\ videoSize = Size(1920, 1080)
  /\ ~canvasBox.isNull /\ canvasBox.boxX > 0 /\ ~photoBox.isNull

\* a box as fractions of its frame
NormBox(b) ==
  [x |-> Frac(b.boxX, b.den * b.Cw), y |-> Frac(b.boxY, b.den * b.Ch),
   w |-> Frac(b.boxW, b.den * b.Cw), h |-> Frac(b.boxH, b.den * b.Ch)]

\* C20: in frame-normalised coordinates the box of the last draw and the box
\* the staged photo was cut with are the box computeMatchScore uses.
C20_OneBoxForAll ==
  /\ ~canvasBox.isNull => NormBox(canvasBox) = NormBox(ScorerBox)
  /\ ~photoBox.isNull => NormBox(photoBox) = NormBox(ScorerBox)

\* twice the shoulder centre and the shoulder width of a skeleton, in
\* coordinate units
CenterX2(p) == p.lm[11].x + p.lm[12].x
ShoulderWidth(p) ==
  Sqrt((p.lm[12].x - p.lm[11].x) * (p.lm[12].x - p.lm[11].x)
       + (p.lm[12].y - p.lm[11].y) * (p.lm[12].y - p.lm[11].y))

TooFarLeft(p) == 100 * CenterX2(p) < 2 * CENTER_LEFT_PCT * COORD_SCALE
TooFarRight(p) == 100 * CenterX2(p) > 2 * CENTER_RIGHT_PCT * COORD_SCALE
TooNear(p) == 100 * ShoulderWidth(p) > SHOULDER_WIDTH_TOO_BIG_PCT * COORD_SCALE
TooFar(p) == 100 * ShoulderWidth(p) < SHOULDER_WIDTH_TOO_SMALL_PCT * COORD_SCALE

\* the advice for the live skeleton when the score is low enough to show it
Advice == IF matchScore < GUIDANCE_MAX_MATCH THEN guidancePrompt ELSE Guidance[livePose]

\* C12: for a live skeleton with both shoulders the advice is decided in the
\* order centre < 0.38 'Move left', centre > 0.62 'Move right', width > 0.42
\* 'Back up', width < 0.16 'Come closer', otherwise none; centring precedes
\* distance, and the template plays no part.
C12_GuidanceOrder ==
  livePose \in GuidePoses =>
    LET p == Skeleton(livePose) IN
    /\ Guidance[livePose] = Advice
    /\ TooFarLeft(p) => Advice = "Move left"
    /\ ~TooFarLeft(p) /\ TooFarRight(p) => Advice = "Move right"
    /\ ~TooFarLeft(p) /\ ~TooFarRight(p) /\ TooNear(p) => Advice = "Back up"
    /\ ~TooFarLeft(p) /\ ~TooFarRight(p) /\ ~TooNear(p) /\ TooFar(p)
         => Advice = "Come closer"
    /\ ~TooFarLeft(p) /\ ~TooFarRight(p) /\ ~TooNear(p) /\ ~TooFar(p)
         => Advice = NullStr

\* centre 0.30 and width 0.50: both a centring and a distance check apply,
\* and the prompt on screen is 'Move left'
C12_LeftAndTooNear ==
  /\ livePose = "leftwide"
  /\ TooFarLeft(Skeleton(livePose)) /\ TooNear(Skeleton(livePose))
  /\ matchScore < GUIDANCE_MAX_MATCH /\ guidancePrompt = "Move left"

\* C13: computeMatchScore is never invoked with a null template skeleton:
\* the template of the scoring effect's latest invocation is a skeleton, on
\* mount, during extraction and after a failed detection.
C13_ScorerNeverGetsNullTemplate == lastScoredTemplate # "null"

\* Idle with nothing staged and the session state cleared
IdleCleared ==
  /\ ~isCapturing /\ capturedPhoto = Null /\ ~showSuccessModal
  /\ pendingScore = Null /\ pendingCaptureType = NullStr
  /\ pendingPoseName = NullStr /\ lastCaptureType = NullStr
  /\ countdown = Null /\ countdownTimer = Null /\ autoHoldStart = Null
  /\ previousScore = 0 /\ matchScore = 0
  /\ ~saveInFlight

\* a saveGalleryPhoto call completes
SaveCompletes == saving' # saving /\ saving' \subseteq saving

\* C14: when the save call of a confirmed capture completes, with the photo
\* inserted or with an error, the machine is Idle with the staged photo,
\* score, type and pose name null, the modal closed, the countdown null and
\* its timer stopped, the hold start cleared and the accumulator and the
\* displayed score 0.
C14_SaveCompletionResets == [][SaveCompletes => IdleCleared']_vars

\* a save was confirmed and has completed, and the machine is Idle
C14_SavedAndIdle ==
  /\ gallery # {} /\ saving = {} /\ IdleCleared /\ step = "camera"

\* the confirmation modal closes and no save call completes: Try Again
ModalDismissed == showSuccessModal /\ ~showSuccessModal' /\ ~SaveCompletes

\* C15: Try Again applies the reset to Idle and hands nothing to
\* saveGalleryPhoto: the outstanding saves and the gallery are unchanged. Only
\* the photo staged in the open modal is ever handed over, only a handed-over
\* photo enters the gallery, and a new capture stages a new photo, so a
\* discarded photo is never persisted.
C15_TryAgainPersistsNothing ==
  [][/\ ModalDismissed => IdleCleared' /\ saving' = saving /\ gallery' = gallery
     /\ \A p \in saving' \ saving :
          showSuccessModal /\ p = capturedPhoto /\ p = capturedPhoto'
     /\ gallery' \ gallery \subseteq saving
     /\ capturedPhoto' \notin {Null, capturedPhoto}
          => /\ capturedPhoto' = captures' /\ captures' > captures
             /\ \A p \in saving \cup gallery : p <= captures]_vars

\* the first photo was discarded with Try Again, the second one was saved:
\* the gallery holds the second photo only
C15_DiscardedPhotoNotInGallery ==
  /\ captures = 2 /\ gallery = {2} /\ saving = {} /\ IdleCleared

\* C16: when auto-capture is off after a step, the hold start is clear and
\* no countdown runs; a step that starts with auto-capture off stages no
\* capture, whatever the score.
C16_AutoOffStaysIdle ==
  [][/\ ~autoCaptureEnabled' =>
          autoHoldStart' = Null /\ countdown' = Null /\ countdownTimer' = Null
     /\ ~autoCaptureEnabled =>
          captures' = captures /\ isCapturing' = isCapturing]_vars

\* auto-capture is off and the score has been at the threshold for the hold
\* time
C16_OffWhileScoreHeld ==
  /\ ~autoCaptureEnabled /\ matchScore >= HOLD_SCORE
  /\ qualSince # Null /\ now - qualSince >= HOLD_MS
  /\ autoHoldStart = Null /\ countdown = Null

\* C17: while a saveGalleryPhoto call is outstanding the machine is still
\* Confirming the photo being saved: the capture is in flight, the modal is
\* open on that photo and the save is marked in flight, so no other capture
\* is staged before the save completes.
C17_SaveResolvesWhileConfirming ==
  saving # {} =>
    /\ isCapturing /\ showSuccessModal /\ saveInFlight
    /\ capturedPhoto \in saving

\* C18: the interval timer runs only while a countdown is displayed on the
\* camera step: once the countdown is cancelled or the camera page is left,
\* no timer is left to fire.
C18_NoTimerAfterCancellation ==
  /\ countdown = Null => countdownTimer = Null
  /\ step # "camera" => countdownTimer = Null

\* C19: the template skeleton changes only when a new template is acquired:
\* in the step in which a picture is chosen, or when the detector's result
\* for a chosen picture arrives. Camera frames, captures, Try Again, save
\* completion and Back leave it as it is.
C19_TemplateImmutable ==
  [][templatePose' # templatePose =>
       \/ uploads' # uploads
       \/ Delivered /\ Head(pending).origin = "template"]_vars

\* the Supabase environment variables are set to a project URL and a key
\* the middleware accepts
EnvConfigured ==
  /\ env.supabaseUrl \notin {"", PlaceholderUrl}
  /\ env.supabaseKey \notin {<<>>, PlaceholderKey}
  /\ keyLooksValid(env.supabaseKey)

\* the path is /camera, /saved or /gallery or lies below one of them
UnderProtectedSection(pathname) ==
  \E base \in {PathCamera, PathSaved, PathGallery} : MatchesBelow(pathname, base)

\* C21: with Supabase configured, a request without a signed-in user to a
\* path under /camera, /saved or /gallery is answered with a redirect to
\* /login whose 'next' parameter is the requested path and query; the page is
\* not served.
C21_ProtectedSectionsRedirect ==
  (/\ ~request.isNull /\ EnvConfigured /\ ~request.user
   /\ UnderProtectedSection(request.pathname))
    => /\ response.kind = "redirect"
       /\ response.pathname = PathLogin
       /\ response.next = request.pathname \o request.search

\* a storage call passes its identity check
Identified == storageCall' # storageCall /\ storageCall'.phase = "identified"

\* a storage call starts
CallStarts == storageCall' # storageCall /\ storageCall.phase # "identified"

\* C22: a storage call passes its identity check only with Supabase
\* configured and an authenticated user; a call started without one ends
\* before its query, by throwing or by asking for a login; and the tables
\* change only in the query of a call that passed the check, or when a save
\* of the camera page completes for an authenticated user.
C22_IdentityCheckBeforeQuery ==
  [][/\ Identified => session = "user" /\ hasSupabase
     /\ CallStarts /\ session # "user" =>
          /\ storageCall'.phase \in {"envMissing", "notAuthenticated", "login"}
          /\ savedPhotos' = savedPhotos /\ gallery' = gallery
     /\ savedPhotos' # savedPhotos \/ gallery' # gallery =>
          \/ storageCall.phase = "identified" /\ storageCall'.phase = "returned"
          \/ SaveCompletes /\ session = "user" /\ hasSupabase]_vars

\* a delete was refused for want of an authenticated user, and the photo is
\* still in the gallery
C22_DeleteRefused ==
  /\ storageCall.fn = "deleteGalleryPhoto"
  /\ storageCall.phase = "notAuthenticated"
  /\ storageCall.id \in gallery /\ session # "user"

\* C23: once the camera has failed to start at every resolution, the camera
\* error overlay shows a message, the camera is not active, and no hold,
\* countdown or capture is under way.
C23_StartFailureSurfaced ==
  camStartFailed =>
    /\ camError # NullStr
    /\ ~isCamActive
    /\ autoHoldStart = Null /\ countdown = Null /\ ~showSuccessModal

\* what every step does to the displayed countdown: it shows 3, 2, 1 in that
\* order, a tick above 1 takes one off and the next is due 1000 ms later,
\* and no countdown starts while a capture is in flight
CountdownSteps ==
  /\ countdown' # Null => countdown' \in 1..COUNTDOWN_FROM
  /\ countdown' # countdown /\ countdown' # Null =>
       \/ countdown = Null /\ countdown' = COUNTDOWN_FROM
       \/ countdown # Null /\ countdown' = countdown - 1
  /\ CountdownTick /\ countdown # Null /\ countdown > 1 =>
       countdown' = countdown - 1 /\ countdownTimer' = now + TICK_MS
  /\ isCapturing /\ countdown = Null => countdown' = Null

\* the tick that arrives at value 1
Expiry == CountdownTick /\ countdown = 1

\* one capture of type 'auto' is performed and opens the confirmation
AutoCaptured ==
  /\ captures' = captures + 1 /\ capturedPhoto' = captures'
  /\ lastCaptureType' = "auto" /\ pendingCaptureType' = "auto"
  /\ isCapturing' /\ showSuccessModal'

ManualCaptured ==
  /\ captures' = captures + 1 /\ capturedPhoto' = captures'
  /\ lastCaptureType' = "manual" /\ pendingCaptureType' = "manual"
  /\ isCapturing' /\ showSuccessModal'

\* C25: on the camera step with a ready video frame and no capture in
\* flight, whatever the score, the hold, the countdown and the Auto toggle
\* are, Take picture stages a capture of type 'manual' and opens the
\* confirmation in the same step.
C25_ManualCaptureAnytime ==
  (step = "camera" /\ isCamActive /\ ~isCapturing /\ ~showSuccessModal
     /\ captures < MaxCaptures)
    => ENABLED (TakePicture /\ ManualCaptured)

\* a manual capture is staged while the countdown it interrupted still runs
C25_TakenDuringCountdown ==
  /\ showSuccessModal /\ pendingCaptureType = "manual"
  /\ countdown # Null /\ matchScore >= HOLD_SCORE

\* C26: a capture of type 'auto' is staged only by the last tick of a
\* countdown, with auto-capture on, the score at 80 or more at every scoring
\* tick since before the hold began, and the hold at least 3000 ms old; a
\* hold exists only with auto-capture on and the score at 80 or more; and a
\* step during a countdown that brings the score below 80 or switches
\* auto-capture off clears the countdown and its timer.
C26_AutoCaptureNeedsUnbrokenMatch ==
  [][/\ captures' # captures /\ lastCaptureType' = "auto" =>
          /\ autoCaptureEnabled /\ matchScore >= HOLD_SCORE
          /\ countdown = 1 /\ countdownTimer # Null
          /\ qualSince # Null /\ autoHoldStart # Null
          /\ qualSince <= autoHoldStart /\ now - autoHoldStart >= HOLD_MS
     /\ autoHoldStart' # Null =>
          autoCaptureEnabled' /\ matchScore' >= HOLD_SCORE
     /\ countdown # Null /\ (matchScore' < HOLD_SCORE \/ ~autoCaptureEnabled') =>
          countdown' = Null /\ countdownTimer' = Null]_vars

\* an automatic capture at the end of a full hold and a full countdown
C26_CapturedAfterHoldAndCountdown ==
  /\ isCapturing /\ lastCaptureType = "auto" /\ autoHoldStart # Null
  /\ now - autoHoldStart >= HOLD_MS + COUNTDOWN_FROM * TICK_MS

\* C27: whenever a capture is staged, manual or automatic, the score staged
\* with it is the smoothed match score shown at that moment.
C27_StagedScoreIsCurrent ==
  [][captures' # captures => pendingScore' = matchScore]_vars

\* C28: whenever a guidance prompt is shown, a live skeleton is present and
\* the smoothed score is below 50.
C28_GuidanceOnlyBelowRoughMatch ==
  guidancePrompt # NullStr => livePose # "null" /\ matchScore < 50

\* a prompt is shown to a subject standing off centre, just below 50
C28_PromptJustBelowFifty ==
  guidancePrompt # NullStr /\ matchScore >= 40

\* C29: no step leaves the mode flag at 'template' with the camera active,
\* and no camera frame is submitted to the detector while the flag is
\* 'template'.
C29_CameraPausedInTemplateMode ==
  [][/\ modeRef' = "template" => ~isCamActive'
     /\ modeRef = "template" => ~onFrame]_vars

\* the detector answers for a template image in which it found no skeleton
NoPoseInTemplate ==
  /\ Delivered /\ Head(pending).origin = "template"
  /\ ImagePose(Head(pending).img) = "null"

\* C30: when the detector finds no skeleton in a template image, the
\* template skeleton is null, extracting is false, the mode flag is
\* 'template' and the step is 'upload' afterwards; and the upload step is
\* left for the camera step only with a template skeleton.
C30_NoPoseKeepsUploadStep ==
  [][/\ NoPoseInTemplate =>
          /\ templatePose' = "null" /\ ~extracting'
          /\ modeRef' = "template" /\ step' = "upload"
     /\ step = "upload" /\ step' = "camera" => templatePose # "null"]_vars

\* C31: whenever a template skeleton is stored, the natural size of the
\* picture it belongs to is stored with it.
C31_SizeStoredWithSkeleton ==
  templatePose # "null" =>
    ~templateImageSize.isNull /\ templateImageSize = ImageSize(templateImageUrl)

\* C32: the rectangle a staged photo was read from is the letterbox box of
\* the video frame, it was drawn to that same box, and it was not flipped.
C32_StillCroppedToBox ==
  ~photoBox.isNull =>
    /\ photoBox.src = [sx |-> Frac(photoBox.boxX, photoBox.den),
                       sy |-> Frac(photoBox.boxY, photoBox.den),
                       sW |-> Frac(photoBox.boxW, photoBox.den),
                       sH |-> Frac(photoBox.boxH, photoBox.den)]
    /\ photoBox.dst = [x |-> photoBox.src.sx, y |-> photoBox.src.sy,
                       w |-> photoBox.src.sW, h |-> photoBox.src.sH]
    /\ ~photoBox.flip

\* a still of a portrait template cut from the middle of a wide video frame
C32_PortraitStillFromWideVideo ==
  /\ ~photoBox.isNull /\ photoBox.Cw = 1920 /\ photoBox.src.sx[1] > 0
  /\ templateImageSize = Size(480, 640)

\* C33: while a capture is in flight no countdown is shown and no countdown
\* timer is active.
C33_NoCountdownWhileInFlight ==
  isCapturing => countdown = Null /\ countdownTimer = Null

\* C34: on the upload step no camera is started or marked active and no
\* camera frame is submitted, and at most one camera is ever active.
C34_BackStopsCamera ==
  [][/\ step' = "upload" => activeCameras' = 0 /\ ~isCamActive'
     /\ activeCameras' <= 1
     /\ step = "upload" => ~onFrame]_vars

\* C35: the detector's answer for a template picture never changes the live
\* skeleton, and a skeleton it stores as template is the one found in the
\* picture selected last, the one shown.
C35_LatestPictureWins ==
  [][Delivered /\ Head(pending).origin = "template" =>
       /\ livePose' = livePose
       /\ templatePose' # "null" => templatePose' = ImagePose(templateImageUrl)]_vars

\* C36: once the detector reports no live skeleton on every camera frame, the
\* displayed smoothed score decays with every frame and eventually reaches 0
C36_AbsentSubjectDecaysToZero == <>(matchScore = 0)

\* C37: every staged photo is handed to saveGalleryPhoto at most once, also
\* when the save is confirmed while a save of that photo is in flight; every
\* outstanding save and every gallery row comes from such a hand-over.
C37_HandedOverAtMostOnce ==
  /\ \A p \in BagToSet(saveCalls) : CopiesIn(p, saveCalls) = 1
  /\ saving \cup gallery \subseteq BagToSet(saveCalls)

\* the second photo is staged in the open modal with its save in flight, after
\* the first photo was handed over as well
C37_SecondSaveInFlight ==
  /\ showSuccessModal /\ saveInFlight /\ capturedPhoto = 2
  /\ capturedPhoto \in saving
  /\ CopiesIn(1, saveCalls) = 1 /\ CopiesIn(2, saveCalls) = 1

\* C38: on the manual camera page the success banner is shown only while the
\* smoothed score is at least 78 and the last 4 or more scoring ticks in a row
\* scored at least 78; a scoring tick below 78 leaves the hold counter at 0 and
\* the banner hidden.
C38_SuccessNeedsFourTicks ==
  /\ lastTicks # <<>> => matchScore = lastTicks[Len(lastTicks)]
  /\ displaySuccess =>
       /\ matchScore >= SUCCESS_THRESHOLD
       /\ successHoldCount >= SUCCESS_HOLD_FRAMES
       /\ Len(lastTicks) = SUCCESS_HOLD_FRAMES
       /\ \A i \in 1..Len(lastTicks) : lastTicks[i] >= SUCCESS_THRESHOLD
  /\ (lastTicks # <<>> /\ lastTicks[Len(lastTicks)] < SUCCESS_THRESHOLD) =>
       successHoldCount = 0 /\ ~displaySuccess

\* the banner is shown on the camera step after exactly four ticks at or
\* above the threshold
C38_BannerShown ==
  /\ step = "camera" /\ displaySuccess
  /\ successHoldCount = SUCCESS_HOLD_FRAMES

\* C39: under every configuration of URL and anon key the storage functions
\* get past their configuration test exactly when the middleware enforces
\* authentication, that is, redirects a visitor of /camera who is not signed
\* in.
C39_StorageAgreesWithMiddleware ==
  BeginPhase # "envMissing" <=>
    middleware([isNull |-> FALSE, pathname |-> PathCamera, search |-> <<>>,
                user |-> FALSE]).kind = "redirect"

\* C40: when every chosen picture loads or fails to load and the detector
\* answers every submission, every template acquisition ends: extracting
\* becomes false again.
C40_AcquisitionEnds == extracting ~> ~extracting

====
